---- MODULE Spec2Model ----
(***************************************************************************)
(* SOME/IP service discovery core of pysomeip: session storage, timed      *)
(* store, and the SD protocol with its Discover / Announce sub-engines,    *)
(* modelled on an asyncio-style event loop (ready queue + timers).         *)
(***************************************************************************)
EXTENDS Integers, Sequences, FiniteSets, TLC

(***************************************************************************)
(* Values shared by all parts                                              *)
(***************************************************************************)

\* Python's None, where a name (a remote, a lock holder) is expected
None == "None"

\* a missing dict entry or an unset value, where a record is expected
NoEntry == [absent |-> TRUE]

\* remote SD endpoints (socket addresses)
Peers == {"p1", "p2"}

(***************************************************************************)
(* _SessionStorage  (protocol/session_storage.py)                          *)
(***************************************************************************)

\* wrap point of the outgoing session id
SESSION_ID_MAX == 65535

\* session ids carried by received datagrams in the session-storage runs
RecvSessionIds == {0, 1, 2}

\* keys of _SessionStorage.incoming: (sender, multicast)
IncomingKeys == Peers \X BOOLEAN

\* keys of _SessionStorage.outgoing: a remote or the default destination None
Remotes == {None, "p1"}

VARIABLES
  incoming,      \* _SessionStorage.incoming: key -> NoEntry | [flag, session_id]
  outgoing,      \* _SessionStorage.outgoing: remote -> NoEntry | [flag, session_id]
  cr,            \* the last check_received call: its arguments, the map it found, its result
  ao_count,      \* per remote: number of assign_outgoing calls that returned
  ao_last,       \* per remote: the pair the last assign_outgoing call returned
  outgoing_lock, \* _SessionStorage.outgoing_lock: None or the thread holding it
  tpc,           \* per sender thread: position inside assign_outgoing
  targ,          \* per sender thread: the remote argument of the running call
  tloc,          \* per sender thread: the locals (flag, _id) read under the lock
  tres,          \* per sender thread: the pairs its calls returned, in order
  base           \* number of assign_outgoing calls made before the threads start

VARIABLES
  ready,         \* the event loop's FIFO of callbacks scheduled with call_soon or come due
  timers,        \* the event loop's pending call_later handles, each with the seconds left
  stores,        \* the TimedStore objects, by owner: each a dict address -> dict entry -> (callback, handle)
  notified,      \* the calls of user callbacks made during the last step, in order
  owed,          \* per (address, entry): departures from the user's store minus expire calls
  last_ttl       \* per (address, entry): the ttl of the last refresh that stored it

VARIABLES
  timings,               \* the Timings object of the SD protocol
  watched_services,      \* ServiceDiscover.watched_services: filters in insertion order, each with its listeners
  watcher_all_services,  \* ServiceDiscover.watcher_all_services
  started,               \* ServiceAnnouncer.started
  announcing_services,   \* ServiceAnnouncer.announcing_services
  instances,             \* the ServiceInstance objects: service, listener, _task, _can_answer_offers
  tasks,                 \* the offer tasks that have not finished: position, pending cancellation, sleep timer
  send_queues,           \* ServiceAnnouncer.send_queues: remote -> NoEntry | SendCollector
  discovery,             \* the task of ServiceDiscover: task, the id of the task running send_find_services, and the tasks created so far
  subscriber,            \* the ServiceSubscriber object: task, alive, subscribeentries
  trace                  \* what has happened so far, in order: handler runs, listener calls, sends, seconds passing

VARIABLES
  wire           \* the value handed to the wire format and what build, parse, assign and resolve made of it

sessVars == <<incoming, outgoing, cr, ao_count, ao_last>>
threadVars == <<outgoing_lock, tpc, targ, tloc, tres, base>>
loopVars == <<ready, timers, stores>>
storeUserVars == <<notified, owed, last_ttl>>
sdVars == <<timings, watched_services, watcher_all_services, started,
            announcing_services, instances, tasks, send_queues, discovery,
            subscriber, trace>>
wireVars == <<wire>>

vars == <<incoming, outgoing, cr, ao_count, ao_last,
          outgoing_lock, tpc, targ, tloc, tres, base,
          ready, timers, stores,
          notified, owed, last_ttl,
          timings, watched_services, watcher_all_services, started,
          announcing_services, instances, tasks, send_queues, discovery,
          subscriber, trace, wire>>

\* ---- check_received ----------------------------------------------------

\* a record of the incoming / outgoing maps
SessionRecord(flag, session_id) == [flag |-> flag, session_id |-> session_id]

\* mutation: the session id comparison is strict
check_received_strict(inc, sender, multicast, flag, session_id) ==
  LET k == <<sender, multicast>>
      old == inc[k]
      ret == IF old = NoEntry
               THEN FALSE
               ELSE flag /\ (~old.flag \/ (old.session_id > 0 /\ old.session_id > session_id))
  IN [ret |-> ret, incoming |-> [inc EXCEPT ![k] = SessionRecord(flag, session_id)]]

\* check_received: try (lookup, compare) / except KeyError / finally (store)
check_received(inc, sender, multicast, flag, session_id) ==
  LET k == <<sender, multicast>>
      old == inc[k]
      ret == IF old = NoEntry
               THEN FALSE   \* KeyError: sender not yet known
               ELSE flag /\ (~old.flag \/ (old.session_id > 0 /\ old.session_id >= session_id))
  IN [ret |-> ret, incoming |-> [inc EXCEPT ![k] = SessionRecord(flag, session_id)]]

\* ---- assign_outgoing ---------------------------------------------------

\* self.outgoing[remote] on the defaultdict: a missing key reads as (True, 1)
outgoing_get(out, remote) ==
  IF out[remote] = NoEntry THEN SessionRecord(TRUE, 1) ELSE out[remote]

\* mutation: the wrap restarts at session id 0
outgoing_advance_zero(flag, id) ==
  IF id >= SESSION_ID_MAX THEN SessionRecord(FALSE, 0) ELSE SessionRecord(flag, id + 1)

\* mutation: the wrap keeps the reboot flag
outgoing_advance_keep(flag, id) ==
  IF id >= SESSION_ID_MAX THEN SessionRecord(flag, 1) ELSE SessionRecord(flag, id + 1)

\* the value written back under the lock
outgoing_advance(flag, id) ==
  IF id >= SESSION_ID_MAX THEN SessionRecord(FALSE, 1) ELSE SessionRecord(flag, id + 1)

\* assign_outgoing run without interruption: returned pair and new map
assign_outgoing(out, remote) ==
  LET cur == outgoing_get(out, remote)
  IN [ret |-> cur,
      outgoing |-> [out EXCEPT ![remote] = outgoing_advance(cur.flag, cur.session_id)]]

\* ---- single-threaded use of the session storage ------------------------

\* bound: assign_outgoing calls for the default destination (two full laps)
MaxAssignCalls == 131073

\* bound: assign_outgoing calls for every other remote
MaxOtherCalls == 1

SessInit ==
  /\ incoming = [k \in IncomingKeys |-> NoEntry]
  /\ outgoing = [r \in Remotes |-> NoEntry]
  /\ cr = NoEntry
  /\ ao_count = [r \in Remotes |-> 0]
  /\ ao_last = [r \in Remotes |-> NoEntry]

ThreadsIdle ==
  /\ outgoing_lock = None
  /\ tpc = <<>>
  /\ targ = <<>>
  /\ tloc = <<>>
  /\ tres = <<>>
  /\ base = 0

\* no SD protocol object
SdIdle ==
  /\ timings = NoEntry
  /\ watched_services = <<>>
  /\ watcher_all_services = {}
  /\ started = FALSE
  /\ announcing_services = <<>>
  /\ instances = <<>>
  /\ tasks = <<>>
  /\ send_queues = <<>>
  /\ discovery = NoEntry
  /\ subscriber = NoEntry
  /\ trace = <<>>

\* nothing is being encoded or decoded
WireIdle == wire = NoEntry

\* an event loop that has not been given anything to do, and no TimedStore user
LoopIdle ==
  /\ SdIdle
  /\ WireIdle
  /\ ready = <<>>
  /\ timers = {}
  /\ stores = <<>>
  /\ notified = <<>>
  /\ owed = <<>>
  /\ last_ttl = <<>>

\* one call of check_received from the event loop
CheckReceived(sender, multicast, flag, session_id) ==
  LET r == check_received(incoming, sender, multicast, flag, session_id)
  IN /\ incoming' = r.incoming
     /\ cr' = [key |-> <<sender, multicast>>, flag |-> flag, session_id |-> session_id,
               before |-> incoming, ret |-> r.ret]
     /\ UNCHANGED <<outgoing, ao_count, ao_last>>
     /\ UNCHANGED threadVars
     /\ UNCHANGED <<loopVars, storeUserVars, sdVars, wireVars>>

\* one call of assign_outgoing with no other caller
AssignOutgoing(remote) ==
  LET r == assign_outgoing(outgoing, remote)
  IN /\ ao_count[remote] < (IF remote = None THEN MaxAssignCalls ELSE MaxOtherCalls)
     /\ outgoing' = r.outgoing
     /\ ao_count' = [ao_count EXCEPT ![remote] = @ + 1]
     /\ ao_last' = [ao_last EXCEPT ![remote] = r.ret]
     /\ UNCHANGED <<incoming, cr>>
     /\ UNCHANGED threadVars
     /\ UNCHANGED <<loopVars, storeUserVars, sdVars, wireVars>>

InitIncoming == SessInit /\ ThreadsIdle /\ LoopIdle

NextIncoming ==
  \E sender \in Peers, multicast \in BOOLEAN, flag \in BOOLEAN, session_id \in RecvSessionIds :
    CheckReceived(sender, multicast, flag, session_id)

SpecIncoming == InitIncoming /\ [][NextIncoming]_vars

InitOutgoing == SessInit /\ ThreadsIdle /\ LoopIdle

NextOutgoing == \E remote \in Remotes : AssignOutgoing(remote)

SpecOutgoing == InitOutgoing /\ [][NextOutgoing]_vars

\* ---- assign_outgoing called from several threads -----------------------

Threads == {"t1", "t2", "t3"}

\* bound: calls each sender thread makes
MaxThreadCalls == 1

\* calls already made when the threads start: none, or up to just before the wrap
ThreadBases == {0, SESSION_ID_MAX - 2}

InitThreads ==
  /\ incoming = [k \in IncomingKeys |-> NoEntry]
  /\ cr = NoEntry
  /\ ao_count = [r \in Remotes |-> 0]
  /\ ao_last = [r \in Remotes |-> NoEntry]
  /\ base \in ThreadBases
  /\ outgoing = [r \in Remotes |-> IF base = 0 THEN NoEntry ELSE SessionRecord(TRUE, base + 1)]
  /\ outgoing_lock = None
  /\ tpc = [t \in Threads |-> "idle"]
  /\ targ = [t \in Threads |-> None]
  /\ tloc = [t \in Threads |-> NoEntry]
  /\ tres = [t \in Threads |-> <<>>]
  /\ LoopIdle

\* a thread enters assign_outgoing(remote)
ThreadCall(t, remote) ==
  /\ tpc[t] = "idle"
  /\ Len(tres[t]) < MaxThreadCalls
  /\ tpc' = [tpc EXCEPT ![t] = "acquire"]
  /\ targ' = [targ EXCEPT ![t] = remote]
  /\ UNCHANGED <<outgoing, outgoing_lock, tloc, tres, base>>
  /\ UNCHANGED <<incoming, cr, ao_count, ao_last>>
  /\ UNCHANGED <<loopVars, storeUserVars, sdVars, wireVars>>

\* mutation: the lock is entered without waiting for it
lock_free_unchecked(lock) == TRUE

\* threading.Lock: acquire blocks until the lock is free
lock_free(lock) == lock = None

\* with self.outgoing_lock: (acquire)
ThreadAcquire(t) ==
  /\ tpc[t] = "acquire"
  /\ lock_free(outgoing_lock)
  /\ outgoing_lock' = t
  /\ tpc' = [tpc EXCEPT ![t] = "read"]
  /\ UNCHANGED <<outgoing, targ, tloc, tres, base>>
  /\ UNCHANGED <<incoming, cr, ao_count, ao_last>>
  /\ UNCHANGED <<loopVars, storeUserVars, sdVars, wireVars>>

\* flag, _id = self.outgoing[remote]
ThreadRead(t) ==
  /\ tpc[t] = "read"
  /\ tloc' = [tloc EXCEPT ![t] = outgoing_get(outgoing, targ[t])]
  /\ outgoing' = [outgoing EXCEPT ![targ[t]] = outgoing_get(outgoing, targ[t])]
  /\ tpc' = [tpc EXCEPT ![t] = "write"]
  /\ UNCHANGED <<outgoing_lock, targ, tres, base>>
  /\ UNCHANGED <<incoming, cr, ao_count, ao_last>>
  /\ UNCHANGED <<loopVars, storeUserVars, sdVars, wireVars>>

\* self.outgoing[remote] = ... (either branch)
ThreadWrite(t) ==
  /\ tpc[t] = "write"
  /\ outgoing' = [outgoing EXCEPT ![targ[t]] = outgoing_advance(tloc[t].flag, tloc[t].session_id)]
  /\ tpc' = [tpc EXCEPT ![t] = "release"]
  /\ UNCHANGED <<outgoing_lock, targ, tloc, tres, base>>
  /\ UNCHANGED <<incoming, cr, ao_count, ao_last>>
  /\ UNCHANGED <<loopVars, storeUserVars, sdVars, wireVars>>

\* leaving the with block releases the lock
ThreadRelease(t) ==
  /\ tpc[t] = "release"
  /\ outgoing_lock' = None
  /\ tpc' = [tpc EXCEPT ![t] = "return"]
  /\ UNCHANGED <<outgoing, targ, tloc, tres, base>>
  /\ UNCHANGED <<incoming, cr, ao_count, ao_last>>
  /\ UNCHANGED <<loopVars, storeUserVars, sdVars, wireVars>>

\* return flag, _id
ThreadReturn(t) ==
  /\ tpc[t] = "return"
  /\ tres' = [tres EXCEPT ![t] = Append(@, [remote |-> targ[t], ret |-> tloc[t]])]
  /\ tloc' = [tloc EXCEPT ![t] = NoEntry]
  /\ targ' = [targ EXCEPT ![t] = None]
  /\ tpc' = [tpc EXCEPT ![t] = "idle"]
  /\ UNCHANGED <<outgoing, outgoing_lock, base>>
  /\ UNCHANGED <<incoming, cr, ao_count, ao_last>>
  /\ UNCHANGED <<loopVars, storeUserVars, sdVars, wireVars>>

NextThreads ==
  \E t \in Threads :
    \/ \E remote \in Remotes : ThreadCall(t, remote)
    \/ ThreadAcquire(t)
    \/ ThreadRead(t)
    \/ ThreadWrite(t)
    \/ ThreadRelease(t)
    \/ ThreadReturn(t)

SpecThreads == InitThreads /\ [][NextThreads]_vars

(***************************************************************************)
(* asyncio event loop: call_soon, call_later, Handle.cancel                *)
(*                                                                         *)
(* The operators below take and return a record w of the mutable state     *)
(* (one field per variable), so that a handler's statements can be applied *)
(* one after the other.                                                    *)
(***************************************************************************)

\* s without its i-th element
RemoveAt(s, i) == SubSeq(s, 1, i - 1) \o SubSeq(s, i + 1, Len(s))

\* the least index of the set idx of positions of a sequence, 0 if idx is empty
FirstIndex(idx) ==
  IF idx = {} THEN 0 ELSE CHOOSE i \in idx : \A j \in idx : i <= j

\* the asyncio.TimerHandle that call_later(delay, cb) creates: handles with the
\* same callback are told apart by the lowest number not in use
TimerHandle(w, delay, cb) ==
  LET used == {t.h.n : t \in {u \in w.timers : u.h.cb = cb}}
             \cup {w.ready[i].h.n : i \in {j \in DOMAIN w.ready :
                      w.ready[j].fn = "timer_handle" /\ w.ready[j].h.cb = cb}}
  IN [cb |-> cb, n |-> CHOOSE n \in 0..Cardinality(used) : n \notin used]

\* a timer handle that has come due, as it sits in the ready queue
DueEntry(h) == [fn |-> "timer_handle", h |-> h]

\* loop.call_soon(cb)
call_soon(w, cb) == [w EXCEPT !.ready = Append(@, cb)]

\* loop.call_later(delay, cb)
call_later(w, delay, cb) ==
  [w EXCEPT !.timers = @ \cup {[h |-> TimerHandle(w, delay, cb), left |-> delay]}]

\* Handle.cancel(): a cancelled handle never runs, whether it still waits for
\* its time or has already been moved to the ready queue
cancel(w, h) ==
  IF \E t \in w.timers : t.h = h
    THEN [w EXCEPT !.timers = {t \in @ : t.h # h}]
    ELSE LET i == FirstIndex({j \in DOMAIN w.ready : w.ready[j] = DueEntry(h)})
         IN IF i # 0 THEN [w EXCEPT !.ready = RemoveAt(@, i)] ELSE w

(***************************************************************************)
(* SD entries, services and subscriptions                                  *)
(* (header/someip_sd_entry.py, config/service.py, sd/event_group_sub.py)   *)
(*                                                                         *)
(* Entries are modelled after resolve_options, with empty option runs.     *)
(***************************************************************************)

\* Service.instance_id and major_version wildcards
ANY_INSTANCE == 65535
ANY_MAJOR == 255

\* Service.minor_version wildcard: 0xFFFFFFFF in the source; minor versions are
\* only compared for equality, and the largest integer of the model stands
\* for the wildcard
ANY_MINOR == 2147483647

\* a SOMEIPSDEntry
SOMEIPSDEntry(sd_type, service_id, instance_id, major_version, ttl, minver_or_counter) ==
  [sd_type |-> sd_type, service_id |-> service_id, instance_id |-> instance_id,
   major_version |-> major_version, ttl |-> ttl,
   minver_or_counter |-> minver_or_counter]

\* SOMEIPSDEntry.service_minor_version
service_minor_version(entry) == entry.minver_or_counter

\* SOMEIPSDEntry.eventgroup_counter: (minver_or_counter >> 16) & 0x0F
eventgroup_counter(entry) == (entry.minver_or_counter \div 65536) % 16

\* SOMEIPSDEntry.eventgroup_id: minver_or_counter & 0xFFFF
eventgroup_id(entry) == entry.minver_or_counter % 65536

\* a someip.config.Service
Service(service_id, instance_id, major_version, minor_version, eventgroups) ==
  [service_id |-> service_id, instance_id |-> instance_id,
   major_version |-> major_version, minor_version |-> minor_version,
   eventgroups |-> eventgroups]

\* Service.matches_offer
matches_offer(self, entry) ==
  /\ self.service_id = entry.service_id
  /\ ~(self.instance_id # ANY_INSTANCE /\ self.instance_id # entry.instance_id)
  /\ ~(self.major_version # ANY_MAJOR /\ self.major_version # entry.major_version)
  /\ ~(self.minor_version # ANY_MINOR /\ self.minor_version # service_minor_version(entry))

\* Service.matches_find
matches_find(self, entry) ==
  /\ self.service_id = entry.service_id
  /\ ~(entry.instance_id # ANY_INSTANCE /\ self.instance_id # entry.instance_id)
  /\ ~(entry.major_version # ANY_MAJOR /\ self.major_version # entry.major_version)
  /\ ~(service_minor_version(entry) # ANY_MINOR
        /\ self.minor_version # service_minor_version(entry))

\* Service.matches_subscribe
matches_subscribe(self, entry) ==
  /\ self.service_id = entry.service_id
  /\ ~(self.instance_id # ANY_INSTANCE /\ self.instance_id # entry.instance_id)
  /\ ~(self.major_version # ANY_MAJOR /\ self.major_version # entry.major_version)
  /\ eventgroup_id(entry) \in self.eventgroups

\* Service.matches_service
matches_service(self, other) ==
  /\ self.service_id = other.service_id
  /\ ~(/\ self.instance_id # ANY_INSTANCE
        /\ other.instance_id # ANY_INSTANCE
        /\ self.instance_id # other.instance_id)
  /\ ~(/\ self.major_version # ANY_MAJOR
        /\ other.major_version # ANY_MAJOR
        /\ self.major_version # other.major_version)
  /\ ~(/\ self.minor_version # ANY_MINOR
        /\ other.minor_version # ANY_MINOR
        /\ self.minor_version # other.minor_version)

\* Service.create_find_entry
create_find_entry(self, ttl) ==
  SOMEIPSDEntry("FindService", self.service_id, self.instance_id,
                self.major_version, ttl, self.minor_version)

\* Service.create_offer_entry
create_offer_entry(self, ttl) ==
  SOMEIPSDEntry("OfferService", self.service_id, self.instance_id,
                self.major_version, ttl, self.minor_version)

\* Service.from_offer_entry
from_offer_entry(entry) ==
  Service(entry.service_id, entry.instance_id, entry.major_version,
          service_minor_version(entry), {})

\* EventgroupSubscription.from_subscribe_entry
from_subscribe_entry(entry) ==
  [service_id |-> entry.service_id, instance_id |-> entry.instance_id,
   major_version |-> entry.major_version, id |-> eventgroup_id(entry),
   counter |-> eventgroup_counter(entry), ttl |-> entry.ttl, endpoints |-> {}]

\* mutation: the acknowledgement carries the counter shifted by 8 bits
to_ack_entry_shift8(self) ==
  SOMEIPSDEntry("SubscribeAck", self.service_id, self.instance_id,
                self.major_version, self.ttl, self.counter * 256 + self.id)

\* EventgroupSubscription.to_ack_entry: (counter << 16) | id, with id < 2^16
to_ack_entry(self) ==
  SOMEIPSDEntry("SubscribeAck", self.service_id, self.instance_id,
                self.major_version, self.ttl, self.counter * 65536 + self.id)

\* EventgroupSubscription.to_nack_entry
to_nack_entry(self) == to_ack_entry([self EXCEPT !.ttl = 0])

(***************************************************************************)
(* Callbacks handed to a TimedStore                                        *)
(***************************************************************************)

\* addresses and entries used by the stand-alone store user
StoreAddrs == Peers
StoreKeys == {[name |-> "k1"], [name |-> "k2"]}

\* the record of a user callback having been called
Notice(ev, address, entry) == [ev |-> ev, address |-> address, entry |-> entry]

\* the elements of a finite set in the order a loop over it visits them
RECURSIVE SetToSeq(_)
SetToSeq(S) ==
  IF S = {} THEN <<>> ELSE LET x == CHOOSE y \in S : TRUE IN <<x>> \o SetToSeq(S \ {x})

\* adds a happening to the trace, tagged with the datagram whose handling is
\* running (0 if none) and the trace position of the call that made it (0
\* if the loop made it)
Log(w, e) ==
  [w EXCEPT !.trace = Append(@, e @@ [dg |-> w.dg, cause |-> w.cause])]

\* Log, for a call that goes on to make calls of its own
LogCall(w, e) == [Log(w, e) EXCEPT !.cause = Len(w.trace) + 1]

\* the registrations a notification about service goes to, in call order:
\* the listeners of every matching filter, then the watch-all listeners
RECURSIVE matching_listeners(_, _, _)
matching_listeners(watched, service, n) ==
  IF n = 0
    THEN <<>>
    ELSE matching_listeners(watched, service, n - 1)
         \o (IF matches_service(watched[n].filter, service)
               THEN LET ls == SetToSeq(watched[n].listeners)
                    IN [i \in DOMAIN ls |->
                          [listener |-> ls[i], reg |-> [filter |-> watched[n].filter]]]
               ELSE <<>>)

\* the listeners reached by _notify_service_offered / _notify_service_stopped
notify_targets(w, service) ==
  matching_listeners(w.watched_services, service, Len(w.watched_services))
  \o LET ls == SetToSeq(w.watcher_all_services)
     IN [i \in DOMAIN ls |-> [listener |-> ls[i], reg |-> [all |-> TRUE]]]

\* the calls listener.<ev>(service, source) for the first n targets
RECURSIVE notify_each(_, _, _, _, _, _)
notify_each(w, ev, targets, service, source, n) ==
  IF n = 0
    THEN w
    ELSE Log(notify_each(w, ev, targets, service, source, n - 1),
             [ev |-> ev, listener |-> targets[n].listener, reg |-> targets[n].reg,
              service |-> service, source |-> source])

\* ServiceDiscover._notify_service_offered / _notify_service_stopped
notify_service(w, fn, ev, service, source) ==
  LET w1 == LogCall(w, [ev |-> fn, service |-> service, source |-> source])
      targets == notify_targets(w, service)
  IN [notify_each(w1, ev, targets, service, source, Len(targets)) EXCEPT !.cause = w.cause]

\* callback(entry, address): the call of a callback object handed to a store
\* or to the loop; yields the new state and whether the callback raised
\* (client_subscribed raises NakSubscription when the listener refuses)
Invoke(w, cb, entry, address) ==
  CASE cb.fn = "on_new" ->
         [w |-> [w EXCEPT !.notified = Append(@, Notice("on_new", address, entry))],
          raised |-> cb.raises]
    [] cb.fn = "on_expire" ->
         [w |-> [w EXCEPT !.notified = Append(@, Notice("on_expire", address, entry))],
          raised |-> FALSE]
    [] cb.fn = "_notify_service_offered" ->
         [w |-> notify_service(w, cb.fn, "service_offered", entry, address),
          raised |-> FALSE]
    [] cb.fn = "_notify_service_stopped" ->
         [w |-> notify_service(w, cb.fn, "service_stopped", entry, address),
          raised |-> FALSE]
    [] cb.fn = "service_offered" ->
         [w |-> Log(w, [ev |-> "service_offered", listener |-> cb.listener,
                        reg |-> [replay |-> TRUE], service |-> entry, source |-> address]),
          raised |-> FALSE]
    [] cb.fn = "service_stopped" ->
         [w |-> Log(w, [ev |-> "service_stopped", listener |-> cb.listener,
                        reg |-> [replay |-> TRUE], service |-> entry, source |-> address]),
          raised |-> FALSE]
    [] cb.fn = "client_subscribed" ->
         [w |-> Log(w, [ev |-> "client_subscribed", listener |-> cb.listener,
                        instance |-> cb.instance, subscription |-> entry,
                        source |-> address, nak |-> cb.listener \in w.refuse]),
          raised |-> cb.listener \in w.refuse]
    [] cb.fn = "client_unsubscribed" ->
         [w |-> Log(w, [ev |-> "client_unsubscribed", listener |-> cb.listener,
                        instance |-> cb.instance, subscription |-> entry,
                        source |-> address]),
          raised |-> FALSE]

(***************************************************************************)
(* TimedStore  (sd/timed_store.py)                                         *)
(*                                                                         *)
(* A store is the dict of dicts in insertion order: a sequence of buckets  *)
(* [addr, items], items a sequence of [key, cb, handle].                   *)
(***************************************************************************)

TTL_FOREVER == 16777215

\* position of address's bucket in the store, 0 if it has none
bucket_index(store, address) ==
  FirstIndex({b \in DOMAIN store : store[b].addr = address})

\* the fields of a dataclass object that take part in == and hash (ttl and
\* options are declared with compare=False)
Identity(entry) == [f \in DOMAIN entry \ {"ttl", "options"} |-> entry[f]]

\* position of entry in a bucket's items, 0 if it is not stored
item_index(items, entry) ==
  FirstIndex({i \in DOMAIN items : Identity(items[i].key) = Identity(entry)})

\* self.store[address] on the defaultdict: creates the bucket when missing
touch(store, address) ==
  IF bucket_index(store, address) = 0
    THEN Append(store, [addr |-> address, items |-> <<>>])
    ELSE store

\* whether (address, entry) is stored
is_stored(store, address, entry) ==
  /\ bucket_index(store, address) # 0
  /\ item_index(store[bucket_index(store, address)].items, entry) # 0

\* the callback object that is the bound method store._expired(address, entry)
expired_cb(sid, address, entry) ==
  [fn |-> "_expired", store |-> sid, address |-> address, entry |-> entry]

\* mutation: refresh schedules the new timer without cancelling the old one
refresh_pop_nocancel(w, sid, address, entry) ==
  LET s0 == touch(w.stores[sid], address)
      b == bucket_index(s0, address)
      i == item_index(s0[b].items, entry)
  IN IF i = 0
       THEN [w |-> [w EXCEPT !.stores[sid] = s0], found |-> FALSE]
       ELSE [w |-> [w EXCEPT !.stores[sid] = [s0 EXCEPT ![b].items = RemoveAt(@, i)]],
             found |-> TRUE]

\* refresh, the try block: pop the entry and cancel its timer
refresh_pop(w, sid, address, entry) ==
  LET s0 == touch(w.stores[sid], address)
      b == bucket_index(s0, address)
      i == item_index(s0[b].items, entry)
  IN IF i = 0
       THEN [w |-> [w EXCEPT !.stores[sid] = s0], found |-> FALSE]
       ELSE LET old == s0[b].items[i]
                w1 == [w EXCEPT !.stores[sid] = [s0 EXCEPT ![b].items = RemoveAt(@, i)]]
            IN [w |-> IF old.handle # NoEntry THEN cancel(w1, old.handle) ELSE w1,
                found |-> TRUE]

\* refresh, after the try block: schedule the timeout and store the entry
refresh_store(w, sid, ttl, address, entry, callback_expired) ==
  LET cb == expired_cb(sid, address, entry)
      timeout_handle == IF ttl # TTL_FOREVER THEN TimerHandle(w, ttl, cb) ELSE NoEntry
      w1 == IF ttl # TTL_FOREVER THEN call_later(w, ttl, cb) ELSE w
      s0 == touch(w1.stores[sid], address)
      b == bucket_index(s0, address)
      item == [key |-> entry, cb |-> callback_expired, handle |-> timeout_handle]
  IN [w1 EXCEPT !.stores[sid] = [s0 EXCEPT ![b].items = Append(@, item)]]

\* mutation: refresh calls callback_new whether or not the entry was stored
ts_refresh_always_new(w, sid, ttl, address, entry, callback_new, callback_expired) ==
  LET p == refresh_pop(w, sid, address, entry)
      r == Invoke(p.w, callback_new, entry, address)
  IN IF r.raised
       THEN r
       ELSE [w |-> refresh_store(r.w, sid, ttl, address, entry, callback_expired),
             raised |-> FALSE]

\* TimedStore.refresh; raised tells whether callback_new raised (and nothing
\* was stored)
ts_refresh(w, sid, ttl, address, entry, callback_new, callback_expired) ==
  LET p == refresh_pop(w, sid, address, entry)
  IN IF p.found
       THEN [w |-> refresh_store(p.w, sid, ttl, address, entry, callback_expired),
             raised |-> FALSE]
       ELSE LET r == Invoke(p.w, callback_new, entry, address)
            IN IF r.raised
                 THEN r
                 ELSE [w |-> refresh_store(r.w, sid, ttl, address, entry, callback_expired),
                       raised |-> FALSE]

\* the trace record of a stored entry leaving the store of its own accord or
\* by one of the stop methods
removed_ev(sid, address, entry, by) ==
  [ev |-> "removed", store |-> sid, address |-> address, entry |-> entry, by |-> by]

\* mutation: stop hands the expire callback to the loop instead of calling it
ts_stop_soon(w, sid, address, entry) ==
  LET s0 == touch(w.stores[sid], address)
      b == bucket_index(s0, address)
      i == item_index(s0[b].items, entry)
  IN IF i = 0
       THEN [w EXCEPT !.stores[sid] = s0]
       ELSE LET old == s0[b].items[i]
                w1 == [w EXCEPT !.stores[sid] = [s0 EXCEPT ![b].items = RemoveAt(@, i)]]
                w2 == IF old.handle # NoEntry THEN cancel(w1, old.handle) ELSE w1
            IN call_soon(Log(w2, removed_ev(sid, address, entry, "stop")),
                         [fn |-> "bound", cb |-> old.cb, entry |-> entry,
                          address |-> address])

\* TimedStore.stop: remove, cancel, and call the expire callback at once
ts_stop(w, sid, address, entry) ==
  LET s0 == touch(w.stores[sid], address)
      b == bucket_index(s0, address)
      i == item_index(s0[b].items, entry)
  IN IF i = 0
       THEN [w EXCEPT !.stores[sid] = s0]
       ELSE LET old == s0[b].items[i]
                w1 == [w EXCEPT !.stores[sid] = [s0 EXCEPT ![b].items = RemoveAt(@, i)]]
                w2 == IF old.handle # NoEntry THEN cancel(w1, old.handle) ELSE w1
            IN Invoke(Log(w2, removed_ev(sid, address, entry, "stop")),
                      old.cb, entry, address).w

\* the callback object that is an expire callback bound to (entry, address)
bound_cb(cb, entry, address) ==
  [fn |-> "bound", cb |-> cb, entry |-> entry, address |-> address]

\* stop_all_for_address, the loop over the first n items of the bucket of
\* store sid
RECURSIVE stop_items(_, _, _, _, _)
stop_items(w, sid, items, address, n) ==
  IF n = 0
    THEN w
    ELSE LET w0 == stop_items(w, sid, items, address, n - 1)
             it == items[n]
             w1 == IF it.handle # NoEntry THEN cancel(w0, it.handle) ELSE w0
         IN call_soon(Log(w1, removed_ev(sid, address, it.key, "stop_all_for_address")),
                      bound_cb(it.cb, it.key, address))

\* TimedStore.stop_all_for_address
ts_stop_all_for_address(w, sid, address) ==
  LET s0 == touch(w.stores[sid], address)
      b == bucket_index(s0, address)
      w1 == stop_items([w EXCEPT !.stores[sid] = s0], sid, s0[b].items, address,
                       Len(s0[b].items))
  IN [w1 EXCEPT !.stores[sid][b].items = <<>>]

\* stop_all, the loop over the first n buckets
RECURSIVE stop_buckets(_, _, _)
stop_buckets(w, sid, n) ==
  IF n = 0
    THEN w
    ELSE ts_stop_all_for_address(stop_buckets(w, sid, n - 1), sid, w.stores[sid][n].addr)

\* TimedStore.stop_all
ts_stop_all(w, sid) ==
  [stop_buckets(w, sid, Len(w.stores[sid])) EXCEPT !.stores[sid] = <<>>]

\* stop_all_matching, the list stopping_entries: (endpoint, entry) pairs of
\* the first n buckets whose entry satisfies match (match given as the set of
\* keys it accepts)
RECURSIVE stopping_entries(_, _, _)
stopping_entries(store, match, n) ==
  IF n = 0
    THEN <<>>
    ELSE stopping_entries(store, match, n - 1)
         \o [j \in 1..Len(SelectSeq(store[n].items, LAMBDA it : it.key \in match)) |->
               <<store[n].addr, SelectSeq(store[n].items, LAMBDA it : it.key \in match)[j].key>>]

\* stop_all_matching, the loop calling stop for the first n pairs
RECURSIVE stop_each(_, _, _, _)
stop_each(w, sid, pairs, n) ==
  IF n = 0
    THEN w
    ELSE ts_stop(stop_each(w, sid, pairs, n - 1), sid, pairs[n][1], pairs[n][2])

\* TimedStore.stop_all_matching
ts_stop_all_matching(w, sid, match) ==
  LET pairs == stopping_entries(w.stores[sid], match, Len(w.stores[sid]))
  IN stop_each(w, sid, pairs, Len(pairs))

\* TimedStore._expired, run by the timer
ts_expired(w, sid, address, entry) ==
  LET s0 == touch(w.stores[sid], address)
      b == bucket_index(s0, address)
      i == item_index(s0[b].items, entry)
      w0 == Log(w, [ev |-> "_expired", store |-> sid, address |-> address,
                    entry |-> entry, found |-> i # 0])
  IN IF i = 0
       THEN [w0 EXCEPT !.stores[sid] = s0]
       ELSE LET old == s0[b].items[i]
                w1 == [w0 EXCEPT !.stores[sid] = [s0 EXCEPT ![b].items = RemoveAt(@, i)]]
            IN call_soon(Log(w1, removed_ev(sid, address, entry, "_expired")),
                         bound_cb(old.cb, entry, address))

\* TimedStore.entries(): the stored keys of all buckets
ts_entries(store) ==
  UNION {{store[b].items[i].key : i \in DOMAIN store[b].items} : b \in DOMAIN store}

(***************************************************************************)
(* Sending: ServiceDiscoveryProtocol.send_sd, ServiceAnnouncer.queue_send, *)
(* SendCollector  (sd/sd_protoco.py, sd/service_announcer.py,              *)
(* sd/send_collector.py)                                                   *)
(***************************************************************************)

\* ServiceDiscoveryProtocol.send_sd
send_sd(w, entries, remote) ==
  IF entries = <<>>
    THEN w
    ELSE LET a == assign_outgoing(w.outgoing, remote)
         IN Log([w EXCEPT !.outgoing = a.outgoing],
                [ev |-> "send", entries |-> entries, remote |-> remote,
                 flag_reboot |-> a.ret.flag, session_id |-> a.ret.session_id])

\* the callback object that is the bound method collector._handle_timeout of
\* the collector kept for remote
handle_timeout_cb(remote) == [fn |-> "_handle_timeout", remote |-> remote]

\* SendCollector.__init__ for the collector of remote
SendCollector(w, timeout, remote) ==
  LET cb == handle_timeout_cb(remote)
  IN [call_later(w, timeout, cb) EXCEPT
        !.send_queues[remote] =
           [data |-> <<>>, done |-> FALSE, handle |-> TimerHandle(w, timeout, cb)]]

\* SendCollector._handle_timeout
handle_timeout(w, remote) ==
  send_sd([w EXCEPT !.send_queues[remote].done = TRUE],
          w.send_queues[remote].data, remote)

\* SendCollector.append on the collector of remote: an expired collector
\* raises RuntimeError
collector_append(w, remote, datum) ==
  IF w.send_queues[remote].done
    THEN Log(w, [ev |-> "RuntimeError", entry |-> datum, remote |-> remote])
    ELSE [w EXCEPT !.send_queues[remote].data = Append(@, datum)]

\* queue_send keeping a collector for as long as there is one
queue_send_reuse(w, entry, remote) ==
  LET w0 == Log(w, [ev |-> "queue_send", entry |-> entry, remote |-> remote])
  IN IF w.timings.SEND_COLLECTION_TIMEOUT = 0
       THEN send_sd(w0, <<entry>>, remote)
       ELSE LET queue == w0.send_queues[remote]
                w1 == IF queue = NoEntry
                        THEN SendCollector(w0, w.timings.SEND_COLLECTION_TIMEOUT, remote)
                        ELSE w0
            IN collector_append(w1, remote, entry)

\* ServiceAnnouncer.queue_send
queue_send(w, entry, remote) ==
  LET w0 == Log(w, [ev |-> "queue_send", entry |-> entry, remote |-> remote])
  IN IF w.timings.SEND_COLLECTION_TIMEOUT = 0
       THEN send_sd(w0, <<entry>>, remote)
       ELSE LET queue == w0.send_queues[remote]
                w1 == IF queue = NoEntry \/ queue.done
                        THEN SendCollector(w0, w.timings.SEND_COLLECTION_TIMEOUT, remote)
                        ELSE w0
            IN collector_append(w1, remote, entry)

(***************************************************************************)
(* ServiceInstance and its offer task  (sd/service_instance.py)            *)
(*                                                                         *)
(* A task is [id, pc, rep, must_cancel, handle]: pc is the await the       *)
(* coroutine is suspended at ("start" before its first step), rep the loop *)
(* index in the repetition phase, handle the timer of the sleep it waits   *)
(* for.  A finished task is dropped from tasks.                            *)
(***************************************************************************)

\* the task with the given id, NoEntry once it has finished
task_of(w, id) ==
  IF \E t \in w.tasks : t.id = id THEN CHOOSE t \in w.tasks : t.id = id ELSE NoEntry

\* replaces the record of a task
task_put(w, t) == [w EXCEPT !.tasks = {u \in @ : u.id # t.id} \cup {t}]

\* the task has finished (returned or raised)
task_end(w, id) == [w EXCEPT !.tasks = {u \in @ : u.id # id}]

\* the callback objects of the loop that drive a task
task_step_cb(id) == [fn |-> "task_step", task |-> id]
sleep_done_cb(id) == [fn |-> "sleep_done", task |-> id]

\* await asyncio.sleep(delay) in task t, which continues at pc
sleep(w, t, pc, delay) ==
  IF delay <= 0
    THEN call_soon(task_put(w, [t EXCEPT !.pc = pc, !.handle = NoEntry]), task_step_cb(t.id))
    ELSE call_later(task_put(w, [t EXCEPT !.pc = pc,
                                          !.handle = TimerHandle(w, delay, sleep_done_cb(t.id))]),
                    delay, sleep_done_cb(t.id))

\* the timer of a sleep has fired: the task is woken through the loop
sleep_done(w, id) ==
  LET t == task_of(w, id)
  IN IF t = NoEntry
       THEN w
       ELSE call_soon(task_put(w, [t EXCEPT !.handle = NoEntry]), task_step_cb(id))

\* asyncio.Task.cancel
task_cancel(w, id) ==
  LET t == task_of(w, id)
  IN IF t = NoEntry
       THEN w
       ELSE IF t.handle # NoEntry
         THEN call_soon(task_put(cancel(w, t.handle),
                                 [t EXCEPT !.handle = NoEntry, !.must_cancel = TRUE]),
                        task_step_cb(id))
         ELSE task_put(w, [t EXCEPT !.must_cancel = TRUE])

\* ServiceInstance._send_offer
send_offer(w, inst, remote, stop) ==
  queue_send(w, create_offer_entry(w.instances[inst].service,
                                   IF stop THEN 0 ELSE w.timings.ANNOUNCE_TTL),
             remote)

\* 2 ** i
RECURSIVE Pow2(_)
Pow2(i) == IF i = 0 THEN 1 ELSE 2 * Pow2(i - 1)

\* _offer_task after the repetition loop: return, or enter the cyclic phase
offer_task_main(w, t) ==
  IF w.timings.CYCLIC_OFFER_DELAY = 0
    THEN task_end(w, t.id)
    ELSE sleep(w, t, "cyclic", w.timings.CYCLIC_OFFER_DELAY)

\* _offer_task from the end of one repetition sleep (or of the initial wait)
\* to the next await
offer_task_repeat(w, t, rep) ==
  IF rep < w.timings.REPETITIONS_MAX
    THEN sleep(w, [t EXCEPT !.rep = rep], "repetition",
               Pow2(rep) * w.timings.REPETITIONS_BASE_DELAY)
    ELSE offer_task_main(w, t)

\* CancelledError thrown into _offer_task at the await it is suspended at
offer_task_cancelled(w, t) ==
  IF t.pc \in {"start", "initial_wait"}
    THEN task_end(w, t.id)
    ELSE LET w1 == [w EXCEPT !.instances[t.id.inst]._can_answer_offers = FALSE]
             w2 == IF w.timings.CYCLIC_OFFER_DELAY # 0
                     THEN send_offer(w1, t.id.inst, None, TRUE)
                     ELSE w1
         IN task_end(w2, t.id)

\* one step of the task running _offer_task, from its wake-up to the next
\* await; w.rnd is the value random.uniform draws
offer_task_step(w, id) ==
  LET t == task_of(w, id)
      inst == id.inst
  IN IF t = NoEntry
       THEN w
       ELSE IF t.must_cancel
         THEN offer_task_cancelled(w, t)
         ELSE CASE t.pc = "start" ->
                     sleep(w, t, "initial_wait", w.rnd)
                [] t.pc = "initial_wait" ->
                     offer_task_repeat(
                       [send_offer(w, inst, None, FALSE) EXCEPT
                          !.instances[inst]._can_answer_offers = TRUE],
                       t, 0)
                [] t.pc = "repetition" ->
                     offer_task_repeat(send_offer(w, inst, None, FALSE), t, t.rep + 1)
                [] t.pc = "cyclic" ->
                     offer_task_main(send_offer(w, inst, None, FALSE), t)

\* ServiceInstance.start; raised tells whether it raised RuntimeError
instance_start(w, inst) ==
  IF w.instances[inst]._task # NoEntry
    THEN [w |-> w, raised |-> TRUE]
    ELSE LET id == [inst |-> inst, n |-> w.instances[inst].starts + 1]
             t == [id |-> id, pc |-> "start", rep |-> 0, must_cancel |-> FALSE,
                   handle |-> NoEntry]
         IN [w |-> call_soon([w EXCEPT !.instances[inst]._can_answer_offers = FALSE,
                                       !.instances[inst]._task = id,
                                       !.instances[inst].starts = @ + 1,
                                       !.tasks = @ \cup {t}],
                             task_step_cb(id)),
             raised |-> FALSE]

\* mutation: stop leaves the subscriptions of the instance in its store
instance_stop_keep(w, inst) ==
  IF w.instances[inst]._task = NoEntry
    THEN [w |-> w, raised |-> TRUE]
    ELSE LET w1 == [task_cancel(w, w.instances[inst]._task) EXCEPT
                      !.instances[inst]._task = NoEntry]
             w2 == IF w.timings.CYCLIC_OFFER_DELAY = 0
                     THEN send_offer(w1, inst, None, TRUE)
                     ELSE w1
         IN [w |-> w2, raised |-> FALSE]

\* ServiceInstance.stop; raised tells whether it raised RuntimeError
instance_stop(w, inst) ==
  IF w.instances[inst]._task = NoEntry
    THEN [w |-> w, raised |-> TRUE]
    ELSE LET w1 == [task_cancel(w, w.instances[inst]._task) EXCEPT
                      !.instances[inst]._task = NoEntry]
             w2 == IF w.timings.CYCLIC_OFFER_DELAY = 0
                     THEN send_offer(w1, inst, None, TRUE)
                     ELSE w1
         IN [w |-> ts_stop_all(w2, inst), raised |-> FALSE]

\* matches_find without the check of _can_answer_offers
instance_matches_find_always(w, inst, entry) ==
  matches_find(w.instances[inst].service, entry)

\* ServiceInstance.matches_find
instance_matches_find(w, inst, entry) ==
  /\ w.instances[inst]._can_answer_offers
  /\ matches_find(w.instances[inst].service, entry)

\* the callbacks a ServiceInstance hands to its subscriptions store
client_subscribed_cb(w, inst) ==
  [fn |-> "client_subscribed", listener |-> w.instances[inst].listener, instance |-> inst]
client_unsubscribed_cb(w, inst) ==
  [fn |-> "client_unsubscribed", listener |-> w.instances[inst].listener, instance |-> inst]

\* mutation: a refused subscription is acknowledged like an accepted one
instance_subscribe_answer_ack(w, r, subscription, addr) ==
  queue_send(r.w, to_ack_entry(subscription), addr)

\* ServiceInstance.handle_subscribe, except NakSubscription / else
instance_subscribe_answer(w, r, subscription, addr) ==
  IF r.raised
    THEN queue_send(r.w, to_nack_entry(subscription), addr)
    ELSE queue_send(r.w, to_ack_entry(subscription), addr)

\* ServiceInstance.handle_subscribe after the two early returns
instance_subscribe(w, inst, entry, addr) ==
  LET subscription == from_subscribe_entry(entry)
  IN IF entry.ttl = 0
       THEN ts_stop(w, inst, addr, subscription)
       ELSE LET r == ts_refresh(w, inst, subscription.ttl, addr, subscription,
                                client_subscribed_cb(w, inst),
                                client_unsubscribed_cb(w, inst))
            IN instance_subscribe_answer(w, r, subscription, addr)

\* ServiceInstance.handle_subscribe; ret is the value it returns
instance_handle_subscribe(w, inst, entry, addr) ==
  IF w.instances[inst]._task = NoEntry
    THEN [w |-> w, ret |-> FALSE]
    ELSE IF ~matches_subscribe(w.instances[inst].service, entry)
      THEN [w |-> w, ret |-> FALSE]
      ELSE LET w0 == LogCall(w, [ev |-> "instance_handle_subscribe", instance |-> inst,
                                 entry |-> entry, addr |-> addr,
                                 stored |-> is_stored(w.stores[inst], addr,
                                                      from_subscribe_entry(entry))])
           IN [w |-> [instance_subscribe(w0, inst, entry, addr) EXCEPT !.cause = w.cause],
               ret |-> TRUE]

\* ServiceInstance.reboot_detected
instance_reboot_detected(w, inst, addr) == ts_stop_all_for_address(w, inst, addr)

(***************************************************************************)
(* ServiceAnnouncer  (sd/service_announcer.py)                             *)
(***************************************************************************)

\* handle_subscribe, the loop over the first n announced instances; matching
\* is the list matching_services
RECURSIVE subscribe_each(_, _, _, _)
subscribe_each(w, entry, addr, n) ==
  IF n = 0
    THEN [w |-> w, matching |-> <<>>]
    ELSE LET p == subscribe_each(w, entry, addr, n - 1)
             inst == w.announcing_services[n]
             r == instance_handle_subscribe(p.w, inst, entry, addr)
         IN [w |-> r.w,
             matching |-> IF r.ret THEN Append(p.matching, inst) ELSE p.matching]

\* ServiceAnnouncer._send_subscribe_nack
send_subscribe_nack(w, subscription, addr) ==
  queue_send(w, to_nack_entry(subscription), addr)

\* mutation: a Subscribe that no instance accepts is dropped without a NACK
announcer_handle_subscribe_silent(w, entry, addr) ==
  LET started_set == {i \in DOMAIN w.instances : w.instances[i]._task # NoEntry}
      w0 == LogCall(w, [ev |-> "handle_subscribe", entry |-> entry, addr |-> addr,
                        announced |-> w.announcing_services,
                        with_task |-> started_set,
                        task_pending |-> {i \in started_set :
                                            task_of(w, w.instances[i]._task) # NoEntry}])
      p == subscribe_each(w0, entry, addr, Len(w.announcing_services))
  IN [p.w EXCEPT !.cause = w.cause]

\* ServiceAnnouncer.handle_subscribe
announcer_handle_subscribe(w, entry, addr) ==
  LET started_set == {i \in DOMAIN w.instances : w.instances[i]._task # NoEntry}
      w0 == LogCall(w, [ev |-> "handle_subscribe", entry |-> entry, addr |-> addr,
                        announced |-> w.announcing_services,
                        with_task |-> started_set,
                        task_pending |-> {i \in started_set :
                                            task_of(w, w.instances[i]._task) # NoEntry}])
      p == subscribe_each(w0, entry, addr, Len(w.announcing_services))
      w1 == IF p.matching = <<>>
              THEN send_subscribe_nack(p.w, from_subscribe_entry(entry), addr)
              ELSE p.w
  IN [w1 EXCEPT !.cause = w.cause]

\* the callback object that is instance._send_offer bound to addr
send_offer_cb(inst, addr) == [fn |-> "_send_offer", instance |-> inst, remote |-> addr]

\* handle_findservice, the loop scheduling the offers of the first n announced
\* instances that match
RECURSIVE findservice_each(_, _, _, _, _)
findservice_each(w, entry, addr, delay, n) ==
  IF n = 0
    THEN w
    ELSE LET w0 == findservice_each(w, entry, addr, delay, n - 1)
             inst == w.announcing_services[n]
         IN IF ~instance_matches_find(w, inst, entry)
              THEN w0
              ELSE IF delay = NoEntry
                THEN call_soon(w0, send_offer_cb(inst, addr))
                ELSE call_later(w0, delay.seconds, send_offer_cb(inst, addr))

\* handle_findservice answering without a delay however the entry came
announcer_handle_findservice_soon(w, entry, addr, received_over_multicast) ==
  LET w0 == Log(w, [ev |-> "handle_findservice", entry |-> entry, addr |-> addr])
  IN findservice_each(w0, entry, addr, NoEntry, Len(w.announcing_services))

\* ServiceAnnouncer.handle_findservice; over multicast the answer waits for
\* uniform(REQUEST_RESPONSE_DELAY_MIN, REQUEST_RESPONSE_DELAY_MAX)
announcer_handle_findservice(w, entry, addr, received_over_multicast) ==
  LET w0 == Log(w, [ev |-> "handle_findservice", entry |-> entry, addr |-> addr])
      delay == IF received_over_multicast THEN [seconds |-> w.rnd] ELSE NoEntry
  IN findservice_each(w0, entry, addr, delay, Len(w.announcing_services))

\* ServiceAnnouncer.start, the loop over the first n announced instances
RECURSIVE start_each(_, _)
start_each(w, n) ==
  IF n = 0
    THEN [w |-> w, raised |-> FALSE]
    ELSE LET p == start_each(w, n - 1)
         IN IF p.raised THEN p ELSE instance_start(p.w, w.announcing_services[n])

\* ServiceAnnouncer.start
announcer_start(w) ==
  LET p == start_each(w, Len(w.announcing_services))
  IN IF p.raised THEN p.w ELSE [p.w EXCEPT !.started = TRUE]

\* ServiceAnnouncer.stop, the loop over the first n announced instances
RECURSIVE stop_each_instance(_, _)
stop_each_instance(w, n) ==
  IF n = 0
    THEN [w |-> w, raised |-> FALSE]
    ELSE LET p == stop_each_instance(w, n - 1)
         IN IF p.raised THEN p ELSE instance_stop(p.w, w.announcing_services[n])

\* ServiceAnnouncer.stop
announcer_stop(w) ==
  LET p == stop_each_instance(w, Len(w.announcing_services))
  IN IF p.raised
       THEN Log(p.w, [ev |-> "raise", error |-> "RuntimeError", who |-> "announcer"])
       ELSE [p.w EXCEPT !.started = FALSE]

\* ServiceAnnouncer.announce_service
announce_service(w, inst) ==
  LET p == IF w.started THEN instance_start(w, inst) ELSE [w |-> w, raised |-> FALSE]
  IN IF p.raised THEN p.w ELSE [p.w EXCEPT !.announcing_services = Append(@, inst)]

\* ServiceAnnouncer.stop_announce_service: list.remove takes out the first
\* occurrence and raises ValueError if there is none
stop_announce_service(w, inst, send_stop) ==
  IF \A i \in DOMAIN w.announcing_services : w.announcing_services[i] # inst
    THEN Log(w, [ev |-> "ValueError", instance |-> inst])
    ELSE LET i == CHOOSE i \in DOMAIN w.announcing_services :
                    /\ w.announcing_services[i] = inst
                    /\ \A j \in 1..(i - 1) : w.announcing_services[j] # inst
             w1 == [w EXCEPT !.announcing_services = RemoveAt(@, i)]
         IN IF send_stop /\ w.started THEN instance_stop(w1, inst).w ELSE w1

\* ServiceAnnouncer.reboot_detected, the loop over the first n announced instances
RECURSIVE reboot_each(_, _, _)
reboot_each(w, addr, n) ==
  IF n = 0
    THEN w
    ELSE instance_reboot_detected(reboot_each(w, addr, n - 1),
                                  w.announcing_services[n], addr)

\* ServiceAnnouncer.reboot_detected
announcer_reboot_detected(w, addr) ==
  reboot_each(w, addr, Len(w.announcing_services))

(***************************************************************************)
(* ServiceDiscover  (sd/service_discover.py)                               *)
(***************************************************************************)

\* ServiceDiscover.is_watching_service
is_watching_service(w, entry) ==
  \/ w.watcher_all_services # {}
  \/ \E i \in DOMAIN w.watched_services : matches_offer(w.watched_services[i].filter, entry)

\* mutation: every offer is reported to the listeners, also a repeated one
service_offered_renotify(w, addr, entry) ==
  ts_refresh(Invoke(w, [fn |-> "_notify_service_offered"], from_offer_entry(entry), addr).w,
             "found", entry.ttl, addr, from_offer_entry(entry),
             [fn |-> "_notify_service_offered"], [fn |-> "_notify_service_stopped"]).w

\* ServiceDiscover.service_offered
service_offered(w, addr, entry) ==
  ts_refresh(w, "found", entry.ttl, addr, from_offer_entry(entry),
             [fn |-> "_notify_service_offered"], [fn |-> "_notify_service_stopped"]).w

\* ServiceDiscover.service_offer_stopped
service_offer_stopped(w, addr, entry) ==
  ts_stop(w, "found", addr, from_offer_entry(entry))

\* the services stored in found_services for addr
found_for(w, addr) ==
  LET s == w.stores["found"]
      b == bucket_index(s, addr)
  IN IF b = 0 THEN {} ELSE {s[b].items[i].key : i \in DOMAIN s[b].items}

\* ServiceDiscover.handle_offer
discover_handle_offer(w, entry, addr) ==
  LET w0 == LogCall(w, [ev |-> "handle_offer", entry |-> entry, addr |-> addr,
                        watching |-> is_watching_service(w, entry),
                        stored |-> is_stored(w.stores["found"], addr,
                                             from_offer_entry(entry))])
      w1 == IF ~is_watching_service(w, entry)
              THEN w0
              ELSE IF entry.ttl = 0
                THEN service_offer_stopped(w0, addr, entry)
                ELSE service_offered(w0, addr, entry)
  IN [w1 EXCEPT !.cause = w.cause]

\* ServiceDiscover.reboot_detected
discover_reboot_detected(w, addr) == ts_stop_all_for_address(w, "found", addr)

\* watched_services[service].add(listener) on the defaultdict
watched_add(watched, service, listener) ==
  LET i == FirstIndex({j \in DOMAIN watched : watched[j].filter = service})
  IN IF i = 0
       THEN Append(watched, [filter |-> service, listeners |-> {listener}])
       ELSE [watched EXCEPT ![i].listeners = @ \cup {listener}]

\* the (address, service) pairs of found_services, in the order of the
\* nested loop over the first n buckets, restricted to the services in keep
RECURSIVE found_pairs(_, _, _)
found_pairs(store, keep, n) ==
  IF n = 0
    THEN <<>>
    ELSE found_pairs(store, keep, n - 1)
         \o LET its == SelectSeq(store[n].items, LAMBDA it : it.key \in keep)
            IN [j \in DOMAIN its |-> <<store[n].addr, its[j].key>>]

\* the replay loop of watch_service / watch_all_services over the first n pairs
RECURSIVE replay_each(_, _, _, _)
replay_each(w, listener, pairs, n) ==
  IF n = 0
    THEN w
    ELSE call_soon(replay_each(w, listener, pairs, n - 1),
                   bound_cb([fn |-> "service_offered", listener |-> listener],
                            pairs[n][2], pairs[n][1]))

\* ServiceDiscover.watch_service
watch_service(w, service, listener) ==
  LET w0 == Log(w, [ev |-> "watch_service", listener |-> listener,
                    reg |-> [filter |-> service]])
      store == w.stores["found"]
      keep == {s \in ts_entries(store) : matches_service(service, s)}
      pairs == found_pairs(store, keep, Len(store))
  IN replay_each([w0 EXCEPT !.watched_services = watched_add(@, service, listener)],
                 listener, pairs, Len(pairs))

\* watched_services[service]: a filter not yet in the defaultdict is added
\* with an empty set of listeners
watched_get(watched, service) ==
  IF \E j \in DOMAIN watched : watched[j].filter = service
    THEN watched
    ELSE Append(watched, [filter |-> service, listeners |-> {}])

\* watched_services[service].remove(listener): the filter stays in the map
watched_remove(watched, service, listener) ==
  LET i == FirstIndex({j \in DOMAIN watched : watched[j].filter = service})
  IN [watched EXCEPT ![i].listeners = @ \ {listener}]

\* the loop of stop_watch_service over the first n pairs
RECURSIVE stop_replay_each(_, _, _, _)
stop_replay_each(w, listener, pairs, n) ==
  IF n = 0
    THEN w
    ELSE call_soon(stop_replay_each(w, listener, pairs, n - 1),
                   bound_cb([fn |-> "service_stopped", listener |-> listener],
                            pairs[n][2], pairs[n][1]))

\* ServiceDiscover.stop_watch_service; set.remove raises KeyError for a
\* listener that is not registered
stop_watch_service(w, service, listener) ==
  LET watched == watched_get(w.watched_services, service)
      i == FirstIndex({j \in DOMAIN watched : watched[j].filter = service})
      registered == listener \in watched[i].listeners
      w0 == Log(w, [ev |-> "stop_watch_service", listener |-> listener,
                    reg |-> [filter |-> service], removed |-> registered])
      store == w.stores["found"]
      keep == {s \in ts_entries(store) : matches_service(service, s)}
      pairs == found_pairs(store, keep, Len(store))
  IN IF ~registered
       THEN Log([w0 EXCEPT !.watched_services = watched],
                [ev |-> "raise", error |-> "KeyError", who |-> "discovery"])
       ELSE stop_replay_each(
              [w0 EXCEPT !.watched_services = watched_remove(watched, service, listener)],
              listener, pairs, Len(pairs))

\* ServiceDiscover.watch_all_services
watch_all_services(w, listener) ==
  LET w0 == Log(w, [ev |-> "watch_service", listener |-> listener, reg |-> [all |-> TRUE]])
      store == w.stores["found"]
      pairs == found_pairs(store, ts_entries(store), Len(store))
  IN replay_each([w0 EXCEPT !.watcher_all_services = @ \cup {listener}],
                 listener, pairs, Len(pairs))

\* ServiceDiscover.__init__: no task, none created yet
NewDiscover == [task |-> NoEntry, starts |-> 0]

\* ServiceDiscover._service_found
service_found(w, service) ==
  \E s \in ts_entries(w.stores["found"]) : matches_service(service, s)

\* mutation: a FindService entry is built for every watched filter
RECURSIVE build_entries_all(_, _)
build_entries_all(w, n) ==
  IF n = 0
    THEN <<>>
    ELSE Append(build_entries_all(w, n - 1),
                create_find_entry(w.watched_services[n].filter, w.timings.FIND_TTL))

\* send_find_services, _build_entries over the first n watched filters
RECURSIVE build_entries(_, _)
build_entries(w, n) ==
  IF n = 0
    THEN <<>>
    ELSE LET rest == build_entries(w, n - 1)
             service == w.watched_services[n].filter
         IN IF service_found(w, service)
              THEN rest
              ELSE Append(rest, create_find_entry(service, w.timings.FIND_TTL))

\* mutation: the repetition delay grows by one base delay instead of doubling
find_repetition_delay_linear(w, i) == (i + 1) * w.timings.REPETITIONS_BASE_DELAY

\* send_find_services, the sleep of repetition i
find_repetition_delay(w, i) == Pow2(i) * w.timings.REPETITIONS_BASE_DELAY

\* send_find_services from the end of a sleep to the next await; rep is the
\* index of the repetition that follows
find_task_send(w, t, rep) ==
  LET w0 == LogCall(w, [ev |-> "_build_entries",
                        watched |-> [i \in DOMAIN w.watched_services |->
                                       w.watched_services[i].filter],
                        found |-> ts_entries(w.stores["found"])])
      find_entries == build_entries(w, Len(w.watched_services))
  IN IF find_entries = <<>>
       THEN task_end([w0 EXCEPT !.cause = w.cause], t.id)
       ELSE LET w1 == [send_sd(w0, find_entries, None) EXCEPT !.cause = w.cause]
            IN IF rep < w.timings.REPETITIONS_MAX
                 THEN sleep(w1, [t EXCEPT !.rep = rep], "repetition",
                            find_repetition_delay(w, rep))
                 ELSE task_end(w1, t.id)

\* one step of the task running send_find_services, from its wake-up to the
\* next await; w.rnd is the value random.uniform draws
find_task_step(w, id) ==
  LET t == task_of(w, id)
  IN IF t = NoEntry
       THEN w
       ELSE IF t.must_cancel
         THEN task_end(w, id)
         ELSE CASE t.pc = "start" ->
                     IF w.watched_services = <<>>
                       THEN task_end(w, id)
                       ELSE sleep(w, t, "initial_wait", w.rnd)
                [] t.pc = "initial_wait" -> find_task_send(w, t, 0)
                [] t.pc = "repetition" -> find_task_send(w, t, t.rep + 1)

\* ServiceDiscover.start
discover_start(w) ==
  IF w.discovery.task # NoEntry /\ task_of(w, w.discovery.task) # NoEntry
    THEN w
    ELSE LET id == [inst |-> "discovery", n |-> w.discovery.starts + 1]
             t == [id |-> id, pc |-> "start", rep |-> 0, must_cancel |-> FALSE,
                   handle |-> NoEntry]
         IN call_soon([w EXCEPT !.discovery = [task |-> id, starts |-> id.n],
                                !.tasks = @ \cup {t}],
                      task_step_cb(id))

\* ServiceDiscover.stop
discover_stop(w) ==
  IF w.discovery.task = NoEntry
    THEN w
    ELSE [task_cancel(w, w.discovery.task) EXCEPT !.discovery.task = NoEntry]

\* ServiceDiscover.connection_lost
discover_connection_lost(w) == ts_stop_all(w, "found")

(***************************************************************************)
(* ServiceSubscriber  (sd/service_subscriber.py, config/eventgroup.py)     *)
(*                                                                         *)
(* An Eventgroup is [service_id, instance_id, major_version,               *)
(* eventgroup_id]; subscribeentries is the list of (eventgroup, endpoint)  *)
(* pairs.                                                                  *)
(***************************************************************************)

\* ServiceSubscriber.__init__
NewSubscriber ==
  [task |-> NoEntry, alive |-> FALSE, subscribeentries |-> <<>>, starts |-> 0]

\* Eventgroup.create_subscribe_entry with the default counter 0
create_subscribe_entry(self, ttl) ==
  SOMEIPSDEntry("Subscribe", self.service_id, self.instance_id, self.major_version,
                ttl, 0 * 65536 + self.eventgroup_id)

\* ServiceSubscriber._group_entries over the first n pairs: the dict
\* endpoint -> eventgroups, in insertion order
RECURSIVE group_entries(_, _)
group_entries(subscribeentries, n) ==
  IF n = 0
    THEN <<>>
    ELSE LET g == group_entries(subscribeentries, n - 1)
             eventgroup == subscribeentries[n][1]
             endpoint == subscribeentries[n][2]
             k == FirstIndex({i \in DOMAIN g : g[i].endpoint = endpoint})
         IN IF k = 0
              THEN Append(g, [endpoint |-> endpoint, entries |-> <<eventgroup>>])
              ELSE [g EXCEPT ![k].entries = Append(@, eventgroup)]

\* ServiceSubscriber._send_subscribe
send_subscribe(w, ttl, remote, entries) ==
  send_sd(w, [i \in DOMAIN entries |-> create_subscribe_entry(entries[i], ttl)], remote)

\* ServiceSubscriber._send_start_subscribe
send_start_subscribe(w, remote, entries) ==
  send_subscribe(w, w.timings.SUBSCRIBE_TTL, remote, entries)

\* ServiceSubscriber._send_stop_subscribe
send_stop_subscribe(w, remote, entries) == send_subscribe(w, 0, remote, entries)

\* the callback objects that are these two methods bound to their arguments
send_start_subscribe_cb(remote, entries) ==
  [fn |-> "_send_start_subscribe", remote |-> remote, entries |-> entries]
send_stop_subscribe_cb(remote, entries) ==
  [fn |-> "_send_stop_subscribe", remote |-> remote, entries |-> entries]

\* mutation: only the first remote is refreshed
subscribe_each_remote_first(w, groups, n) ==
  IF n = 0 THEN w ELSE send_start_subscribe(w, groups[1].endpoint, groups[1].entries)

\* _subscribe, the for loop over the first n remotes
RECURSIVE subscribe_each_remote(_, _, _)
subscribe_each_remote(w, groups, n) ==
  IF n = 0
    THEN w
    ELSE send_start_subscribe(subscribe_each_remote(w, groups, n - 1),
                              groups[n].endpoint, groups[n].entries)

\* one step of the task running _subscribe, from its wake-up to the next
\* await; a CancelledError thrown into the sleep breaks the loop
subscribe_task_step(w, id) ==
  LET t == task_of(w, id)
  IN IF t = NoEntry
       THEN w
       ELSE IF t.must_cancel
         THEN task_end(w, id)
         ELSE LET w0 == LogCall(w, [ev |-> "_subscribe",
                                    subscribeentries |-> w.subscriber.subscribeentries])
                  groups == group_entries(w.subscriber.subscribeentries,
                                          Len(w.subscriber.subscribeentries))
                  w1 == [subscribe_each_remote(w0, groups, Len(groups)) EXCEPT
                           !.cause = w.cause]
              IN IF w.timings.SUBSCRIBE_REFRESH_INTERVAL = NoEntry
                   THEN task_end(w1, id)
                   ELSE sleep(w1, t, "refresh",
                              w.timings.SUBSCRIBE_REFRESH_INTERVAL.seconds)

\* ServiceSubscriber.subscribe_eventgroup
subscribe_eventgroup(w, eventgroup, endpoint) ==
  LET w0 == [w EXCEPT !.subscriber.subscribeentries = Append(@, <<eventgroup, endpoint>>)]
  IN IF w.subscriber.alive
       THEN call_soon(w0, send_start_subscribe_cb(endpoint, <<eventgroup>>))
       ELSE w0

\* ServiceSubscriber.stop_subscribe_eventgroup
stop_subscribe_eventgroup(w, eventgroup, endpoint, send) ==
  LET se == w.subscriber.subscribeentries
      k == FirstIndex({i \in DOMAIN se : se[i] = <<eventgroup, endpoint>>})
  IN IF k = 0
       THEN w
       ELSE LET w0 == [w EXCEPT !.subscriber.subscribeentries = RemoveAt(@, k)]
            IN IF send
                 THEN call_soon(w0, send_stop_subscribe_cb(endpoint, <<eventgroup>>))
                 ELSE w0

\* ServiceSubscriber.start
subscriber_start(w) ==
  IF w.subscriber.alive
    THEN w
    ELSE LET id == [inst |-> "subscriber", n |-> w.subscriber.starts + 1]
             t == [id |-> id, pc |-> "start", rep |-> 0, must_cancel |-> FALSE,
                   handle |-> NoEntry]
         IN call_soon([w EXCEPT !.subscriber.alive = TRUE,
                                !.subscriber.task = id,
                                !.subscriber.starts = id.n,
                                !.tasks = @ \cup {t}],
                      task_step_cb(id))

\* ServiceSubscriber.stop, the loop scheduling the stop of the first n remotes
RECURSIVE stop_each_remote(_, _, _)
stop_each_remote(w, groups, n) ==
  IF n = 0
    THEN w
    ELSE call_soon(stop_each_remote(w, groups, n - 1),
                   send_stop_subscribe_cb(groups[n].endpoint, groups[n].entries))

\* ServiceSubscriber.stop
subscriber_stop(w, send) ==
  IF ~w.subscriber.alive
    THEN w
    ELSE LET w0 == [w EXCEPT !.subscriber.alive = FALSE]
             w1 == IF w.subscriber.task # NoEntry
                     THEN [task_cancel(w0, w.subscriber.task) EXCEPT
                             !.subscriber.task = NoEntry]
                     ELSE w0
             groups == group_entries(w.subscriber.subscribeentries,
                                     Len(w.subscriber.subscribeentries))
         IN IF send
              THEN stop_each_remote(w1, groups, Len(groups))
              ELSE w1

\* ServiceSubscriber.connection_lost
subscriber_connection_lost(w) == subscriber_stop(w, FALSE)

(***************************************************************************)
(* ServiceDiscoveryProtocol  (sd/sd_protoco.py)                            *)
(*                                                                         *)
(* A received message is [sd, session_id, payload]: sd tells whether the   *)
(* SOME/IP header passes the SD envelope check, payload is the parsed SD   *)
(* header [flag_reboot, flag_unicast, entries] or NoEntry if it does not   *)
(* parse.                                                                  *)
(***************************************************************************)

\* the callback objects scheduled by reboot_detected and sd_message_received;
\* dg names the datagram they stem from
reboot_detected_cb(who, addr, dg) ==
  [fn |-> "reboot_detected", who |-> who, addr |-> addr, dg |-> dg]
handle_offer_cb(entry, addr, dg) ==
  [fn |-> "handle_offer", entry |-> entry, addr |-> addr, dg |-> dg]

\* the callback objects scheduled by connection_lost
connection_lost_cb(who) == [fn |-> "connection_lost", who |-> who]

\* ServiceDiscoveryProtocol.connection_lost
sd_connection_lost(w) ==
  call_soon(call_soon(call_soon(w, connection_lost_cb("subscriber")),
                      connection_lost_cb("discovery")),
            connection_lost_cb("announcer"))

\* ServiceDiscoveryProtocol.start
sd_start(w) == discover_start(announcer_start(subscriber_start(w)))

\* ServiceDiscoveryProtocol.stop
sd_stop(w) ==
  LET w1 == discover_stop(w)
  IN IF stop_each_instance(w1, Len(w1.announcing_services)).raised
       THEN announcer_stop(w1)   \* the error leaves stop() before subscriber.stop()
       ELSE subscriber_stop(announcer_stop(w1), TRUE)

\* ServiceDiscoveryProtocol.reboot_detected
sd_reboot_detected(w, addr) ==
  call_soon(call_soon(call_soon(w, reboot_detected_cb("subscriber", addr, w.dg)),
                      reboot_detected_cb("discovery", addr, w.dg)),
            reboot_detected_cb("announcer", addr, w.dg))

\* sd_message_received, the body of the loop for one entry
dispatch_entry(w, entry, addr, multicast) ==
  CASE entry.sd_type = "OfferService" -> call_soon(w, handle_offer_cb(entry, addr, w.dg))
    [] entry.sd_type = "SubscribeAck" -> w
    [] entry.sd_type = "FindService" -> announcer_handle_findservice(w, entry, addr, multicast)
    [] entry.sd_type = "Subscribe" ->
         IF multicast THEN w ELSE announcer_handle_subscribe(w, entry, addr)

\* sd_message_received, the loop over the first n entries
RECURSIVE dispatch_entries(_, _, _, _, _)
dispatch_entries(w, entries, addr, multicast, n) ==
  IF n = 0
    THEN w
    ELSE dispatch_entry(dispatch_entries(w, entries, addr, multicast, n - 1),
                        entries[n], addr, multicast)

\* ServiceDiscoveryProtocol.sd_message_received
sd_message_received(w, sdhdr, addr, multicast) ==
  IF ~sdhdr.flag_unicast
    THEN w
    ELSE dispatch_entries(w, sdhdr.entries, addr, multicast, Len(sdhdr.entries))

\* the header fields of a Service Discovery message
SD_SERVICE == 65535
SD_METHOD == 33024
SD_INTERFACE_VERSION == 1

\* SOMEIPHeader: a parsed SOME/IP message; payload is the SOMEIPSDHeader the
\* payload bytes parse to, or NoEntry if SOMEIPSDHeader.parse raises
\* ParseError on them
SOMEIPHeader(service_id, method_id, session_id, interface_version, message_type, return_code, payload) ==
  [service_id |-> service_id, method_id |-> method_id, session_id |-> session_id,
   interface_version |-> interface_version, message_type |-> message_type,
   return_code |-> return_code, payload |-> payload]

\* message_received, the negation of its first condition: the message has the
\* envelope of a Service Discovery message
sd_envelope(someip_message) ==
  ~(\/ someip_message.service_id # SD_SERVICE
    \/ someip_message.method_id # SD_METHOD
    \/ someip_message.interface_version # SD_INTERFACE_VERSION
    \/ someip_message.return_code # "E_OK"
    \/ someip_message.message_type # "NOTIFICATION")

\* message_received without the check of the envelope
message_received_any(w, someip_message, addr, multicast, dg) ==
  IF someip_message.payload = NoEntry
    THEN w
    ELSE LET sdhdr == someip_message.payload
             c == check_received(w.incoming, addr, multicast, sdhdr.flag_reboot,
                                 someip_message.session_id)
             w0 == LogCall([w EXCEPT !.incoming = c.incoming, !.dg = dg],
                           [ev |-> "message_received", addr |-> addr,
                            multicast |-> multicast, reboot |-> c.ret,
                            known |-> found_for(w, addr)])
             w1 == IF c.ret THEN sd_reboot_detected(w0, addr) ELSE w0
         IN [sd_message_received(w1, sdhdr, addr, multicast) EXCEPT !.dg = 0]

\* ServiceDiscoveryProtocol.message_received for the datagram numbered dg
message_received(w, someip_message, addr, multicast, dg) ==
  IF ~sd_envelope(someip_message) \/ someip_message.payload = NoEntry
    THEN w
    ELSE LET sdhdr == someip_message.payload
             c == check_received(w.incoming, addr, multicast, sdhdr.flag_reboot,
                                 someip_message.session_id)
             w0 == LogCall([w EXCEPT !.incoming = c.incoming, !.dg = dg],
                           [ev |-> "message_received", addr |-> addr,
                            multicast |-> multicast, reboot |-> c.ret,
                            known |-> found_for(w, addr)])
             w1 == IF c.ret THEN sd_reboot_detected(w0, addr) ELSE w0
         IN [sd_message_received(w1, sdhdr, addr, multicast) EXCEPT !.dg = 0]

(***************************************************************************)
(* Event loop steps                                                        *)
(***************************************************************************)

\* the mutable state as one record, at the start of a step; refuse is the set
\* of listeners that refuse a subscription during the step and rnd the value
\* random.uniform returns during the step
World ==
  [ready |-> ready, timers |-> timers, stores |-> stores, notified |-> <<>>,
   incoming |-> incoming, outgoing |-> outgoing, timings |-> timings,
   watched_services |-> watched_services,
   watcher_all_services |-> watcher_all_services,
   started |-> started, announcing_services |-> announcing_services,
   instances |-> instances, tasks |-> tasks, send_queues |-> send_queues,
   discovery |-> discovery, subscriber |-> subscriber,
   trace |-> trace, dg |-> 0, cause |-> 0, refuse |-> {}, rnd |-> 0]

\* ServiceSubscriber.reboot_detected: does nothing
subscriber_reboot_detected(w, addr) == w

\* the run of a reboot_detected callback of one of the three sub-engines
run_reboot_detected(w, cb) ==
  LET w0 == LogCall([w EXCEPT !.dg = cb.dg],
                    [ev |-> "reboot_detected", who |-> cb.who, addr |-> cb.addr])
  IN [(CASE cb.who = "subscriber" -> subscriber_reboot_detected(w0, cb.addr)
         [] cb.who = "discovery" -> discover_reboot_detected(w0, cb.addr)
         [] cb.who = "announcer" -> announcer_reboot_detected(w0, cb.addr))
        EXCEPT !.dg = 0, !.cause = 0]

\* ServiceAnnouncer.connection_lost
announcer_connection_lost(w) == announcer_stop(w)

\* the run of a connection_lost callback of one of the three sub-engines
run_connection_lost(w, cb) ==
  LET w0 == LogCall(w, [ev |-> "connection_lost", who |-> cb.who])
  IN [(CASE cb.who = "subscriber" -> subscriber_connection_lost(w0)
         [] cb.who = "discovery" -> discover_connection_lost(w0)
         [] cb.who = "announcer" -> announcer_connection_lost(w0))
        EXCEPT !.cause = 0]

\* the loop resumes a task: the coroutine it runs is told by the task's owner
task_step(w, id) ==
  CASE id.inst = "discovery" -> find_task_step(w, id)
    [] id.inst = "subscriber" -> subscribe_task_step(w, id)
    [] OTHER -> offer_task_step(w, id)

\* the loop runs one callback object taken from the ready queue
run_callback(w, e) ==
  LET cb == IF e.fn = "timer_handle" THEN e.h.cb ELSE e
  IN CASE cb.fn = "_expired" -> ts_expired(w, cb.store, cb.address, cb.entry)
       [] cb.fn = "bound" -> Invoke(w, cb.cb, cb.entry, cb.address).w
       [] cb.fn = "datagram_received" ->
            message_received(w, cb.data, cb.addr, cb.multicast, cb.dg)
       [] cb.fn = "reboot_detected" -> run_reboot_detected(w, cb)
       [] cb.fn = "handle_offer" ->
            [discover_handle_offer([w EXCEPT !.dg = cb.dg], cb.entry, cb.addr)
               EXCEPT !.dg = 0]
       [] cb.fn = "_send_offer" -> send_offer(w, cb.instance, cb.remote, FALSE)
       [] cb.fn = "_handle_timeout" -> handle_timeout(w, cb.remote)
       [] cb.fn = "task_step" -> task_step(w, cb.task)
       [] cb.fn = "connection_lost" -> run_connection_lost(w, cb)
       [] cb.fn = "_send_start_subscribe" -> send_start_subscribe(w, cb.remote, cb.entries)
       [] cb.fn = "_send_stop_subscribe" -> send_stop_subscribe(w, cb.remote, cb.entries)
       [] cb.fn = "sleep_done" -> sleep_done(w, cb.task)

\* whether some timer is due
TimerDue == \E t \in timers : t.left = 0

\* a timer has come due: its handle moves to the ready queue
timer_fire(w, t) ==
  [w EXCEPT !.timers = @ \ {t}, !.ready = Append(@, DueEntry(t.h))]

\* the loop sleeps for a second: every pending timer is a second closer
tick(w) ==
  Log([w EXCEPT !.timers = {[t EXCEPT !.left = @ - 1] : t \in @}], [ev |-> "tick"])

(***************************************************************************)
(* A TimedStore driven directly by its user                                *)
(***************************************************************************)

\* bound: the store user waits while this many callbacks are ready to run
MaxReady == 2

StoreTtls == {1, 2, TTL_FOREVER}

\* the (address, entry) pairs the store user works with
StorePairs ==
  {<<"p1", [name |-> "k1"]>>, <<"p1", [name |-> "k2"]>>, <<"p2", [name |-> "k1"]>>}

InitStore ==
  /\ SessInit
  /\ SdIdle
  /\ ThreadsIdle
  /\ WireIdle
  /\ ready = <<>>
  /\ timers = {}
  /\ stores = [sid \in {"user"} |-> <<>>]
  /\ notified = <<>>
  /\ owed = [p \in StorePairs |-> 0]
  /\ last_ttl = [p \in StorePairs |-> 0]

\* number of occurrences of e in the sequence s
CountSeq(s, e) == Cardinality({i \in DOMAIN s : s[i] = e})

\* the state after a step of the store user or of the loop; a departure is a
\* pair stored before the step and not after it
StoreCommit(w, ttls) ==
  /\ ready' = w.ready
  /\ timers' = w.timers
  /\ stores' = w.stores
  /\ notified' = w.notified
  /\ owed' = [p \in StorePairs |->
                owed[p]
                + (IF is_stored(stores["user"], p[1], p[2])
                      /\ ~is_stored(w.stores["user"], p[1], p[2]) THEN 1 ELSE 0)
                - CountSeq(w.notified, Notice("on_expire", p[1], p[2]))]
  /\ last_ttl' = [p \in StorePairs |->
                    IF is_stored(w.stores["user"], p[1], p[2]) THEN ttls[p] ELSE 0]
  /\ UNCHANGED <<sessVars, threadVars, sdVars, wireVars>>

UserRefresh(ttl, address, entry, raises) ==
  LET r == ts_refresh(World, "user", ttl, address, entry,
                      [fn |-> "on_new", raises |-> raises], [fn |-> "on_expire"])
  IN /\ Len(ready) < MaxReady
     /\ <<address, entry>> \in StorePairs
     /\ StoreCommit(r.w, [last_ttl EXCEPT ![<<address, entry>>] = ttl])

UserStop(address, entry) ==
  /\ Len(ready) < MaxReady
  /\ <<address, entry>> \in StorePairs
  /\ StoreCommit(ts_stop(World, "user", address, entry), last_ttl)

UserStopAllForAddress(address) ==
  /\ Len(ready) < MaxReady
  /\ StoreCommit(ts_stop_all_for_address(World, "user", address), last_ttl)

UserStopAll ==
  /\ Len(ready) < MaxReady
  /\ StoreCommit(ts_stop_all(World, "user"), last_ttl)

UserStopAllMatching(entry) ==
  /\ Len(ready) < MaxReady
  /\ StoreCommit(ts_stop_all_matching(World, "user", {entry}), last_ttl)

\* a timer comes due: the loop moves its handle to the ready queue
StoreTimerFire ==
  \E t \in timers :
    /\ t.left = 0
      /\ StoreCommit(timer_fire(World, t), last_ttl)

\* the loop runs the first callback of the ready queue
StoreRunCallback ==
  /\ ready # <<>>
  /\ StoreCommit(run_callback([World EXCEPT !.ready = Tail(@)], Head(ready)), last_ttl)

\* the loop has nothing to run: a second passes
StoreTick ==
  /\ ready = <<>>
  /\ ~TimerDue
  /\ timers # {}
  /\ StoreCommit(tick(World), last_ttl)

NextStore ==
  \/ \E ttl \in StoreTtls, address \in StoreAddrs, entry \in StoreKeys, raises \in BOOLEAN :
       UserRefresh(ttl, address, entry, raises)
  \/ \E address \in StoreAddrs, entry \in StoreKeys : UserStop(address, entry)
  \/ \E address \in StoreAddrs : UserStopAllForAddress(address)
  \/ UserStopAll
  \/ \E entry \in StoreKeys : UserStopAllMatching(entry)
  \/ StoreTimerFire
  \/ StoreRunCallback
  \/ StoreTick

SpecStore == InitStore /\ [][NextStore]_vars

(***************************************************************************)
(* The SD protocol on its event loop                                       *)
(***************************************************************************)

\* bound: datagrams received in a run
MaxDatagrams == 2

\* number of datagrams that have arrived so far
NumArrived == Cardinality({i \in DOMAIN trace : trace[i].ev = "datagram"})

\* number of calls the application has made to start or stop a sub-engine
NumCalls(ev, who) ==
  Cardinality({i \in DOMAIN trace : trace[i].ev = ev /\ trace[i].who = who})

\* the trace positions of the happenings named ev
EventsNamed(ev) == {i \in DOMAIN trace : trace[i].ev = ev}

\* number of ticks of the clock so far
NumTicks == Cardinality({i \in DOMAIN trace : trace[i].ev = "tick"})

\* the state after a step of the application, the transport or the loop
SdCommit(w) ==
  /\ ready' = w.ready
  /\ timers' = w.timers
  /\ stores' = w.stores
  /\ incoming' = w.incoming
  /\ outgoing' = w.outgoing
  /\ watched_services' = w.watched_services
  /\ watcher_all_services' = w.watcher_all_services
  /\ started' = w.started
  /\ announcing_services' = w.announcing_services
  /\ instances' = w.instances
  /\ tasks' = w.tasks
  /\ send_queues' = w.send_queues
  /\ discovery' = w.discovery
  /\ subscriber' = w.subscriber
  /\ trace' = w.trace
  /\ UNCHANGED <<timings, cr, ao_count, ao_last, threadVars, storeUserVars, wireVars>>

\* the transport has read a datagram: datagram_received is run by the loop
DatagramArrives(data, addr, multicast) ==
  /\ NumArrived < MaxDatagrams
  /\ Len(ready) < MaxReady
  /\ SdCommit(call_soon(Log(World, [ev |-> "datagram", addr |-> addr]),
                        [fn |-> "datagram_received", data |-> data, addr |-> addr,
                         multicast |-> multicast, dg |-> NumArrived + 1]))

\* the values random.uniform can return in the callback at the head of the
\* ready queue
UniformRange ==
  LET e == Head(ready)
  IN CASE e.fn = "task_step" -> timings.INITIAL_DELAY_MIN..timings.INITIAL_DELAY_MAX
       [] e.fn = "datagram_received" ->
            timings.REQUEST_RESPONSE_DELAY_MIN..timings.REQUEST_RESPONSE_DELAY_MAX
       [] OTHER -> {0}

\* the sets of listeners that can refuse a subscription in the callback at the
\* head of the ready queue: client_subscribed is only called while a datagram
\* is handled
RefuseRange ==
  IF Head(ready).fn = "datagram_received"
    THEN SUBSET {instances[i].listener : i \in DOMAIN instances}
    ELSE {{}}

\* the loop runs the first callback of the ready queue
SdRunCallback(refuse, rnd) ==
  /\ ready # <<>>
  /\ rnd \in UniformRange
  /\ refuse \in RefuseRange
  /\ SdCommit(run_callback([World EXCEPT !.ready = Tail(@), !.refuse = refuse, !.rnd = rnd],
                           Head(ready)))

\* a timer comes due: the loop moves its handle to the ready queue
SdTimerFire ==
  \E t \in timers :
    /\ t.left = 0
    /\ SdCommit(timer_fire(World, t))

\* the loop has nothing to run: a second passes
SdTick ==
  /\ ready = <<>>
  /\ ~TimerDue
  /\ timers # {}
  /\ SdCommit(tick(World))

\* the Timings the protocol is constructed with, in whole seconds
ModelTimings ==
  [INITIAL_DELAY_MIN |-> 0, INITIAL_DELAY_MAX |-> 0,
   REQUEST_RESPONSE_DELAY_MIN |-> 0, REQUEST_RESPONSE_DELAY_MAX |-> 0,
   REPETITIONS_MAX |-> 0, REPETITIONS_BASE_DELAY |-> 1,
   CYCLIC_OFFER_DELAY |-> 0, ANNOUNCE_TTL |-> TTL_FOREVER,
   SEND_COLLECTION_TIMEOUT |-> 0]

(***************************************************************************)
(* Discover: an application watching services, offers arriving             *)
(***************************************************************************)

\* the services offered by the peers
S1 == Service(1, 1, 1, 0, {})
S2 == Service(1, 2, 1, 0, {})

\* the registrations the application makes: filter and listener
WatchPairs ==
  {<<Service(1, ANY_INSTANCE, ANY_MAJOR, ANY_MINOR, {}), "L1">>,
   <<Service(1, 2, 1, ANY_MINOR, {}), "L2">>}

\* an SD message with the given header flags, session id and entries
SdMessage(flag_reboot, session_id, entries) ==
  SOMEIPHeader(SD_SERVICE, SD_METHOD, session_id, SD_INTERFACE_VERSION, "NOTIFICATION",
               "E_OK",
               [flag_reboot |-> flag_reboot, flag_unicast |-> TRUE, entries |-> entries])

\* the entry lists of the offer datagrams: offers and a stop offer
OfferEntries ==
  {<<create_offer_entry(S1, 2)>>,
   <<create_offer_entry(S1, 1), create_offer_entry(S2, 2)>>}
StopOfferEntries == {<<create_offer_entry(S1, 0)>>}

\* the offer datagrams that can arrive: message, sender, received over multicast
OfferDatagrams ==
  {<<SdMessage(TRUE, sid, es), "p1", TRUE>> : sid \in {1, 2}, es \in OfferEntries}
  \cup {<<SdMessage(TRUE, 2, es), "p1", TRUE>> : es \in StopOfferEntries}

InitDiscover ==
  /\ SessInit
  /\ ThreadsIdle
  /\ WireIdle
  /\ ready = <<>>
  /\ timers = {}
  /\ stores = [sid \in {"found"} |-> <<>>]
  /\ notified = <<>>
  /\ owed = <<>>
  /\ last_ttl = <<>>
  /\ timings = ModelTimings
  /\ watched_services = <<>>
  /\ watcher_all_services = {}
  /\ started = FALSE
  /\ announcing_services = <<>>
  /\ instances = <<>>
  /\ tasks = {}
  /\ send_queues = [r \in {None} \cup Peers |-> NoEntry]
  /\ discovery = NewDiscover
  /\ subscriber = NewSubscriber
  /\ trace = <<>>

\* the application calls watch_service
WatchService(service, listener) ==
  /\ Len(ready) < MaxReady
  /\ \A i \in DOMAIN watched_services :
        watched_services[i].filter = service => listener \notin watched_services[i].listeners
  /\ SdCommit(watch_service(World, service, listener))

NextDiscover ==
  \/ \E p \in WatchPairs : WatchService(p[1], p[2])
  \/ \E d \in OfferDatagrams : DatagramArrives(d[1], d[2], d[3])
  \/ \E rnd \in 0..0 : SdRunCallback({}, rnd)
  \/ SdTimerFire
  \/ SdTick

SpecDiscover == InitDiscover /\ [][NextDiscover]_vars

(***************************************************************************)
(* Announce: an application announcing services, Subscribe and FindService *)
(* entries arriving                                                        *)
(***************************************************************************)

\* bound: times a ServiceInstance, the find loop or the Subscriber is started in a run
MaxStarts == 1

\* the ServiceInstances the application has constructed: i2 offers every
\* instance and major version of service 1
AnnouncedServices ==
  [i1 |-> Service(1, 1, 1, 0, {1}),
   i2 |-> Service(1, ANY_INSTANCE, ANY_MAJOR, 0, {1, 2})]

\* the listener each ServiceInstance is constructed with
InstanceListeners == [i1 |-> "A1", i2 |-> "A2"]

\* a Subscribe entry for service 1, instance 1, major version 1 with
\* eventgroup counter 1
SubscribeEntry(eventgroup, ttl) ==
  SOMEIPSDEntry("Subscribe", 1, 1, 1, ttl, 1 * 65536 + eventgroup)

\* a FindService entry for every instance and version of service 1
FindEntry == SOMEIPSDEntry("FindService", 1, ANY_INSTANCE, ANY_MAJOR, 0, ANY_MINOR)

\* the datagrams that can arrive: message, sender, received over multicast
AnnounceDatagrams ==
  {<<SdMessage(TRUE, sid, <<SubscribeEntry(1, 2)>>), "p1", FALSE>> : sid \in {1, 2}}
  \cup {<<SdMessage(TRUE, 2, <<SubscribeEntry(eg, 1)>>), "p1", FALSE>> : eg \in {2, 3}}
  \cup {<<SdMessage(TRUE, 2, <<SubscribeEntry(1, 0)>>), "p1", FALSE>>,
        <<SdMessage(TRUE, 1, <<FindEntry>>), "p1", TRUE>>}

\* ServiceDiscoveryProtocol.__init__ and ServiceInstance.__init__ for the
\* instances the application has constructed
InitAnnounce ==
  /\ SessInit
  /\ ThreadsIdle
  /\ WireIdle
  /\ ready = <<>>
  /\ timers = {}
  /\ stores = [sid \in {"found"} \cup DOMAIN AnnouncedServices |-> <<>>]
  /\ notified = <<>>
  /\ owed = <<>>
  /\ last_ttl = <<>>
  /\ timings = ModelTimings
  /\ watched_services = <<>>
  /\ watcher_all_services = {}
  /\ started = FALSE
  /\ announcing_services = <<>>
  /\ instances = [i \in DOMAIN AnnouncedServices |->
                    [service |-> AnnouncedServices[i], listener |-> InstanceListeners[i],
                     _task |-> NoEntry, _can_answer_offers |-> FALSE, starts |-> 0]]
  /\ tasks = {}
  /\ send_queues = [r \in {None} \cup Peers |-> NoEntry]
  /\ discovery = NewDiscover
  /\ subscriber = NewSubscriber
  /\ trace = <<>>

\* the application calls announce_service for an instance not yet announced;
\* it announces i1 before i2
AnnounceService(inst) ==
  /\ \A i \in DOMAIN announcing_services : announcing_services[i] # inst
  /\ inst = "i2" => announcing_services # <<>>
  /\ Len(ready) < MaxReady
  /\ started => instances[inst].starts < MaxStarts
  /\ SdCommit(announce_service(World, inst))

\* the application calls ServiceAnnouncer.start
AnnouncerStart ==
  /\ ~started
  /\ Len(ready) < MaxReady
  /\ \A i \in DOMAIN announcing_services :
        instances[announcing_services[i]].starts < MaxStarts
  /\ SdCommit(announcer_start(World))

\* the application calls ServiceAnnouncer.stop
AnnouncerStop ==
  /\ started
  /\ Len(ready) < MaxReady
  /\ SdCommit(announcer_stop(World))

NextAnnounce ==
  \/ \E inst \in DOMAIN AnnouncedServices : AnnounceService(inst)
  \/ AnnouncerStart
  \/ AnnouncerStop
  \/ \E d \in AnnounceDatagrams : DatagramArrives(d[1], d[2], d[3])
  \/ \E refuse \in SUBSET {"A1", "A2"}, rnd \in 0..0 : SdRunCallback(refuse, rnd)
  \/ SdTimerFire
  \/ SdTick

SpecAnnounce == InitAnnounce /\ [][NextAnnounce]_vars

\* the datagrams of a client that subscribes, stops and subscribes again: a
\* Subscribe, a StopSubscribe, and a StopSubscribe followed by a Subscribe
\* for the same eventgroup in one message
ResubscribeDatagrams ==
  {<<SdMessage(TRUE, 1, <<SubscribeEntry(1, 2)>>), "p1", FALSE>>,
   <<SdMessage(TRUE, 2, <<SubscribeEntry(1, 0)>>), "p1", FALSE>>,
   <<SdMessage(TRUE, 2, <<SubscribeEntry(1, 0), SubscribeEntry(1, 2)>>), "p1", FALSE>>}

NextResubscribe ==
  \/ \E inst \in DOMAIN AnnouncedServices : AnnounceService(inst)
  \/ AnnouncerStart
  \/ AnnouncerStop
  \/ \E d \in ResubscribeDatagrams : DatagramArrives(d[1], d[2], d[3])
  \/ \E refuse \in SUBSET {"A1", "A2"}, rnd \in 0..0 : SdRunCallback(refuse, rnd)
  \/ SdTimerFire
  \/ SdTick

SpecResubscribe == InitAnnounce /\ [][NextResubscribe]_vars

(***************************************************************************)
(* Timings in units of 10 ms: one tick of the loop's clock is 10 ms        *)
(***************************************************************************)

\* Timings with REPETITIONS_BASE_DELAY = 0.01 s, REQUEST_RESPONSE_DELAY
\* within 0.01 s .. 0.02 s, no initial delay and no send collection; the
\* ttl fields are what is written into the entries
TimingsCs ==
  [INITIAL_DELAY_MIN |-> 0, INITIAL_DELAY_MAX |-> 0,
   REQUEST_RESPONSE_DELAY_MIN |-> 1, REQUEST_RESPONSE_DELAY_MAX |-> 2,
   REPETITIONS_MAX |-> 3, REPETITIONS_BASE_DELAY |-> 1,
   CYCLIC_OFFER_DELAY |-> 10, FIND_TTL |-> 3, ANNOUNCE_TTL |-> 3,
   SUBSCRIBE_TTL |-> 5, SUBSCRIBE_REFRESH_INTERVAL |-> [seconds |-> 3],
   SEND_COLLECTION_TIMEOUT |-> 0]

\* the values random.uniform can return under these timings
Delays == 0..2

\* the state of a protocol object constructed with the given timings, on a
\* loop that has nothing to do
InitSd(t) ==
  /\ incoming = [k \in IncomingKeys |-> NoEntry]
  /\ outgoing = [r \in {None} \cup Peers |-> NoEntry]
  /\ cr = NoEntry
  /\ ao_count = [r \in Remotes |-> 0]
  /\ ao_last = [r \in Remotes |-> NoEntry]
  /\ ThreadsIdle
  /\ WireIdle
  /\ ready = <<>>
  /\ timers = {}
  /\ notified = <<>>
  /\ owed = <<>>
  /\ last_ttl = <<>>
  /\ timings = t
  /\ watched_services = <<>>
  /\ watcher_all_services = {}
  /\ started = FALSE
  /\ announcing_services = <<>>
  /\ tasks = {}
  /\ send_queues = [r \in {None} \cup Peers |-> NoEntry]
  /\ discovery = NewDiscover
  /\ subscriber = NewSubscriber
  /\ trace = <<>>

(***************************************************************************)
(* Find: an application watching services and starting Discover, offers    *)
(* arriving while the find loop runs                                       *)
(***************************************************************************)

\* the datagrams that can arrive: offers that never expire and a stop offer
FindDatagrams ==
  {<<SdMessage(TRUE, 1, <<create_offer_entry(S1, TTL_FOREVER)>>), "p1", TRUE>>,
   <<SdMessage(TRUE, 1, <<create_offer_entry(S2, TTL_FOREVER)>>), "p2", TRUE>>,
   <<SdMessage(TRUE, 2, <<create_offer_entry(S1, 0)>>), "p1", TRUE>>}

InitFind ==
  /\ InitSd(TimingsCs)
  /\ stores = [sid \in {"found"} |-> <<>>]
  /\ instances = <<>>

\* the application calls ServiceDiscover.start
DiscoverStart ==
  /\ discovery.starts < MaxStarts
  /\ Len(ready) < MaxReady
  /\ SdCommit(discover_start(Log(World, [ev |-> "start", who |-> "discovery"])))

\* the application calls ServiceDiscover.stop
DiscoverStop ==
  /\ discovery.task # NoEntry
  /\ Len(ready) < MaxReady
  /\ SdCommit(discover_stop(Log(World, [ev |-> "stop", who |-> "discovery"])))

\* the application calls and the datagrams come while the loop is idle
NextFind ==
  \/ ready = <<>> /\ \E p \in WatchPairs : WatchService(p[1], p[2])
  \/ ready = <<>> /\ DiscoverStart
  \/ ready = <<>> /\ DiscoverStop
  \/ ready = <<>> /\ \E d \in FindDatagrams : DatagramArrives(d[1], d[2], d[3])
  \/ \E rnd \in Delays : SdRunCallback({}, rnd)
  \/ SdTimerFire
  \/ SdTick

SpecFind == InitFind /\ [][NextFind]_vars

(***************************************************************************)
(* Unwatch: an application that also takes its listeners back              *)
(***************************************************************************)

\* bound: calls of stop_watch_service in a run
MaxUnwatchCalls == 1

\* one repetition of the find loop after its first datagram
UnwatchTimings == [TimingsCs EXCEPT !.REPETITIONS_MAX = 1]

InitUnwatch ==
  /\ InitSd(UnwatchTimings)
  /\ stores = [sid \in {"found"} |-> <<>>]
  /\ instances = <<>>

\* the application calls stop_watch_service
StopWatchService(service, listener) ==
  /\ Cardinality(EventsNamed("stop_watch_service")) < MaxUnwatchCalls
  /\ Len(ready) < MaxReady
  /\ SdCommit(stop_watch_service(World, service, listener))

\* the application calls and the datagrams come while the loop is idle
NextUnwatch ==
  \/ ready = <<>> /\ \E p \in WatchPairs : WatchService(p[1], p[2])
  \/ ready = <<>> /\ \E p \in WatchPairs : StopWatchService(p[1], p[2])
  \/ ready = <<>> /\ DiscoverStart
  \/ ready = <<>> /\ \E d \in FindDatagrams : DatagramArrives(d[1], d[2], d[3])
  \/ \E rnd \in 0..1 : SdRunCallback({}, rnd)
  \/ SdTimerFire
  \/ SdTick

SpecUnwatch == InitUnwatch /\ [][NextUnwatch]_vars

(***************************************************************************)
(* Seek: listeners registered before and after start, under a loop that    *)
(* keeps running                                                           *)
(***************************************************************************)

\* the datagrams that can arrive: offers that never expire
SeekDatagrams ==
  {<<SdMessage(TRUE, 1, <<create_offer_entry(S1, TTL_FOREVER)>>), "p1", TRUE>>,
   <<SdMessage(TRUE, 1, <<create_offer_entry(S2, TTL_FOREVER)>>), "p2", TRUE>>}

NextSeek ==
  \/ ready = <<>> /\ \E p \in WatchPairs : WatchService(p[1], p[2])
  \/ ready = <<>> /\ DiscoverStart
  \/ ready = <<>> /\ \E d \in SeekDatagrams : DatagramArrives(d[1], d[2], d[3])
  \/ \E rnd \in Delays : SdRunCallback({}, rnd)
  \/ SdTimerFire
  \/ SdTick

\* run_forever: a ready callback is run, a due timer fires, and time passes
\* while a timer is pending.  SdRunCallback is enabled exactly when ready is
\* not empty, so its weak fairness is written with that condition in place
\* of ENABLED
SeekFairness ==
  /\ []<>(ready = <<>>) \/ []<><<\E rnd \in Delays : SdRunCallback({}, rnd)>>_vars
  /\ WF_vars(SdTimerFire)
  /\ WF_vars(SdTick)

SpecSeek == InitUnwatch /\ [][NextSeek]_vars /\ SeekFairness

(***************************************************************************)
(* Offer: an application announcing ServiceInstances, starting and         *)
(* stopping the announcer, with cyclic offers                              *)
(***************************************************************************)

\* bound: ticks of the clock in a run with cyclic offers
MaxTicks == 24

\* the timings of the offer cycle: initial delay of 0 or 0.01 s, two
\* repetitions from 0.01 s, then an offer every 0.1 s
OfferTimings == [TimingsCs EXCEPT !.INITIAL_DELAY_MAX = 1, !.REPETITIONS_MAX = 2]

\* ServiceInstance.__init__ for the instances the application has constructed
NewInstances ==
  [i \in DOMAIN AnnouncedServices |->
     [service |-> AnnouncedServices[i], listener |-> InstanceListeners[i],
      _task |-> NoEntry, _can_answer_offers |-> FALSE, starts |-> 0]]

\* the datagrams that can arrive: a FindService for service 1 over multicast
\* or over unicast, and one for a service that is not announced
FindServiceDatagrams ==
  {<<SdMessage(TRUE, 1, <<FindEntry>>), "p1", TRUE>>,
   <<SdMessage(TRUE, 1, <<FindEntry>>), "p2", FALSE>>,
   <<SdMessage(TRUE, 1, <<SOMEIPSDEntry("FindService", 2, ANY_INSTANCE, ANY_MAJOR, 0,
                                         ANY_MINOR)>>), "p1", TRUE>>}

InitOffer ==
  /\ InitSd(OfferTimings)
  /\ stores = [sid \in {"found"} \cup DOMAIN AnnouncedServices |-> <<>>]
  /\ instances = NewInstances

\* the application calls announce_service for an instance not yet announced
AppAnnounceService(inst) ==
  /\ \A i \in DOMAIN announcing_services : announcing_services[i] # inst
  /\ started => instances[inst].starts < MaxStarts
  /\ SdCommit(announce_service(Log(World, [ev |-> "announce_service", instance |-> inst,
                                           started |-> started]),
                               inst))

\* the application calls ServiceAnnouncer.start
AppAnnouncerStart ==
  /\ ~started
  /\ NumCalls("start", "announcer") < MaxStarts
  /\ \A i \in DOMAIN announcing_services :
        instances[announcing_services[i]].starts < MaxStarts
  /\ SdCommit(announcer_start(Log(World, [ev |-> "start", who |-> "announcer",
                                          announced |-> announcing_services])))

\* the application calls ServiceAnnouncer.stop
AppAnnouncerStop ==
  /\ started
  /\ SdCommit(announcer_stop(Log(World, [ev |-> "stop", who |-> "announcer",
                                         announced |-> announcing_services])))

\* the clock ticks, up to the bound
BoundedTick ==
  /\ NumTicks < MaxTicks
  /\ SdTick

\* the application calls come while the loop is idle
NextOffer ==
  \/ ready = <<>> /\ \E inst \in DOMAIN AnnouncedServices : AppAnnounceService(inst)
  \/ ready = <<>> /\ AppAnnouncerStart
  \/ ready = <<>> /\ AppAnnouncerStop
  \/ \E rnd \in Delays : SdRunCallback({}, rnd)
  \/ SdTimerFire
  \/ BoundedTick

SpecOffer == InitOffer /\ [][NextOffer]_vars

(***************************************************************************)
(* Answer: FindService entries arriving while ServiceInstances are         *)
(* announced, started and stopped                                          *)
(***************************************************************************)

\* bound: ticks of the clock in a run with FindService entries arriving
MaxAnswerTicks == 5

\* bound: FindService datagrams received in a run
MaxFinds == 1

\* the clock ticks, up to the bound
AnswerTick ==
  /\ NumTicks < MaxAnswerTicks
  /\ SdTick

\* the application calls and the datagrams come while the loop is idle; the
\* application announces its instances before it starts the announcer
NextAnswer ==
  \/ /\ ready = <<>>
     /\ NumCalls("start", "announcer") = 0
     /\ \E inst \in DOMAIN AnnouncedServices : AppAnnounceService(inst)
  \/ /\ ready = <<>>
     /\ NumArrived < MaxFinds
     /\ \E d \in FindServiceDatagrams : DatagramArrives(d[1], d[2], d[3])
  \/ ready = <<>> /\ AppAnnouncerStart
  \/ ready = <<>> /\ AppAnnouncerStop
  \/ \E rnd \in Delays : SdRunCallback({}, rnd)
  \/ SdTimerFire
  \/ AnswerTick

SpecAnswer == InitOffer /\ [][NextAnswer]_vars

(***************************************************************************)
(* End: clients subscribing to ServiceInstances whose offer task ends by   *)
(* itself or is stopped                                                    *)
(***************************************************************************)

\* bound: ticks of the clock in a run with subscriptions and a stop
MaxEndTicks == 2

\* the timings, in whole seconds: no repetitions, and either no cyclic offers
\* (the offer task returns after the first offer) or one every two seconds
EndTimings == {[ModelTimings EXCEPT !.CYCLIC_OFFER_DELAY = cyc] : cyc \in {0, 2}}

\* the datagrams that can arrive: Subscribes of p1 for eventgroup 1, which
\* both instances offer, and for eventgroup 2, which i2 offers
EndDatagrams ==
  {<<SdMessage(TRUE, 1, <<SubscribeEntry(1, 2)>>), "p1", FALSE>>,
   <<SdMessage(TRUE, 2, <<SubscribeEntry(2, 1)>>), "p1", FALSE>>}

InitEnd ==
  /\ \E t \in EndTimings : InitSd(t)
  /\ stores = [sid \in {"found"} \cup DOMAIN AnnouncedServices |-> <<>>]
  /\ instances = NewInstances

\* the clock ticks, up to the bound
EndTick ==
  /\ NumTicks < MaxEndTicks
  /\ SdTick

\* the application announces its instances, starts the announcer and stops
\* it while the loop is idle; datagrams arrive at any time after the start
NextEnd ==
  \/ /\ ready = <<>>
     /\ NumCalls("start", "announcer") = 0
     /\ \E inst \in DOMAIN AnnouncedServices : AppAnnounceService(inst)
  \/ ready = <<>> /\ AppAnnouncerStart
  \/ ready = <<>> /\ AppAnnouncerStop
  \/ /\ NumCalls("start", "announcer") > 0
     /\ \E d \in EndDatagrams : DatagramArrives(d[1], d[2], d[3])
  \/ \E rnd \in 0..0 : SdRunCallback({}, rnd)
  \/ SdTimerFire
  \/ EndTick

SpecEnd == InitEnd /\ [][NextEnd]_vars

(***************************************************************************)
(* Withdraw: ServiceInstances taken out of the announcement one by one or  *)
(* all at once, with FindService entries arriving before and after         *)
(***************************************************************************)

\* bound: ticks of the clock in a run with instances being withdrawn
MaxWithdrawTicks == 2

\* the timings: first offer at once, no repetitions, then either no cyclic
\* offers or one every two ticks; answers over multicast wait 1 or 2 ticks
WithdrawTimings ==
  {[TimingsCs EXCEPT !.REPETITIONS_MAX = 0, !.CYCLIC_OFFER_DELAY = cyc] : cyc \in {0, 2}}

InitWithdraw ==
  /\ \E t \in WithdrawTimings : InitSd(t)
  /\ stores = [sid \in {"found"} \cup DOMAIN AnnouncedServices |-> <<>>]
  /\ instances = NewInstances

\* the application calls stop_announce_service for an instance it announced
AppStopAnnounceService(inst, send_stop) ==
  /\ \E i \in DOMAIN announcing_services : announcing_services[i] = inst
  /\ SdCommit(stop_announce_service(
                Log(World, [ev |-> "stop_announce_service", instance |-> inst,
                            send_stop |-> send_stop, started |-> started]),
                inst, send_stop))

\* the clock ticks, up to the bound
WithdrawTick ==
  /\ NumTicks < MaxWithdrawTicks
  /\ SdTick

\* the application announces its instances, starts the announcer, withdraws
\* instances and stops the announcer while the loop is idle; after the start
\* one FindService datagram arrives at some idle moment
NextWithdraw ==
  \/ /\ ready = <<>>
     /\ NumCalls("start", "announcer") = 0
     /\ \E inst \in DOMAIN AnnouncedServices : AppAnnounceService(inst)
  \/ /\ ready = <<>>
     /\ NumCalls("start", "announcer") > 0
     /\ NumArrived < MaxFinds
     /\ \E d \in FindServiceDatagrams : DatagramArrives(d[1], d[2], d[3])
  \/ ready = <<>> /\ AppAnnouncerStart
  \/ ready = <<>> /\ AppAnnouncerStop
  \/ /\ ready = <<>>
     /\ NumCalls("start", "announcer") > 0
     /\ \E inst \in DOMAIN AnnouncedServices, send_stop \in BOOLEAN :
          AppStopAnnounceService(inst, send_stop)
  \/ \E rnd \in Delays : SdRunCallback({}, rnd)
  \/ SdTimerFire
  \/ WithdrawTick

SpecWithdraw == InitWithdraw /\ [][NextWithdraw]_vars

(***************************************************************************)
(* Lost: a protocol whose three sub-engines are started and whose          *)
(* transport then reports connection_lost                                  *)
(***************************************************************************)

\* bound: ticks of the clock in a run that loses its connection
MaxLostTicks == 4

\* bound: datagrams received before the connection is lost
MaxLostDatagrams == 1

\* Eventgroup(service_id, instance_id, major_version, eventgroup_id, sockname,
\* protocol): the eventgroups the application subscribes to; the endpoint
\* option is not modelled
Eventgroup(service_id, instance_id, major_version, id) ==
  [service_id |-> service_id, instance_id |-> instance_id,
   major_version |-> major_version, eventgroup_id |-> id]

EG1 == Eventgroup(1, 1, 1, 1)
EG2 == Eventgroup(1, 1, 1, 2)

\* the datagrams that can arrive: an offer of a watched service, a
\* subscription to an announced eventgroup, a FindService over multicast
LostDatagrams ==
  {<<SdMessage(TRUE, 1, <<create_offer_entry(S1, TTL_FOREVER)>>), "p1", TRUE>>,
   <<SdMessage(TRUE, 1, <<SubscribeEntry(1, TTL_FOREVER)>>), "p1", FALSE>>,
   <<SdMessage(TRUE, 1, <<FindEntry>>), "p2", TRUE>>}

\* whether the application has called ServiceDiscoveryProtocol.start, and
\* whether the transport has reported connection_lost
ProtocolStarted == NumCalls("start", "protocol") > 0
ConnectionIsLost == NumCalls("connection_lost", "transport") > 0

\* the application calls subscribe_eventgroup
AppSubscribe(eventgroup, endpoint) ==
  /\ \A i \in DOMAIN subscriber.subscribeentries :
        subscriber.subscribeentries[i] # <<eventgroup, endpoint>>
  /\ SdCommit(subscribe_eventgroup(Log(World, [ev |-> "subscribe_eventgroup",
                                               eventgroup |-> eventgroup,
                                               endpoint |-> endpoint]),
                                   eventgroup, endpoint))

\* the application calls ServiceDiscoveryProtocol.start
SdStart ==
  /\ ~ProtocolStarted
  /\ SdCommit(sd_start(Log(World, [ev |-> "start", who |-> "protocol"])))

\* the transport calls ServiceDiscoveryProtocol.connection_lost
ConnectionLost ==
  /\ ProtocolStarted
  /\ ~ConnectionIsLost
  /\ SdCommit(sd_connection_lost(Log(World, [ev |-> "connection_lost",
                                             who |-> "transport"])))

\* the clock ticks, up to the bound
LostTick ==
  /\ NumTicks < MaxLostTicks
  /\ SdTick

\* the application sets the sub-engines up and starts the protocol; datagrams
\* arrive until the connection is lost
NextLost ==
  \/ /\ ready = <<>> /\ ~ProtocolStarted
     /\ WatchService(Service(1, ANY_INSTANCE, ANY_MAJOR, ANY_MINOR, {}), "L1")
  \/ ready = <<>> /\ ~ProtocolStarted /\ AppAnnounceService("i1")
  \/ ready = <<>> /\ ~ProtocolStarted /\ AppSubscribe(EG1, "p1")
  \/ ready = <<>> /\ SdStart
  \/ /\ ready = <<>> /\ ProtocolStarted /\ ~ConnectionIsLost
     /\ NumArrived < MaxLostDatagrams
     /\ \E d \in LostDatagrams : DatagramArrives(d[1], d[2], d[3])
  \/ ready = <<>> /\ ConnectionLost
  \/ \E rnd \in Delays : SdRunCallback({}, rnd)
  \/ SdTimerFire
  \/ LostTick

SpecLost == InitOffer /\ [][NextLost]_vars

(***************************************************************************)
(* Halt: a started protocol that is stopped, or loses its connection, more *)
(* than once                                                               *)
(***************************************************************************)

\* bound: calls of stop() and reports of connection_lost in a run
MaxHalts == 2

\* bound: ticks of the clock in a run that is stopped
MaxHaltTicks == 2

\* the number of times the protocol was stopped or lost its connection
NumHalts == NumCalls("stop", "protocol") + NumCalls("connection_lost", "transport")

\* the application calls ServiceDiscoveryProtocol.stop
SdStop ==
  /\ ProtocolStarted
  /\ NumHalts < MaxHalts
  /\ SdCommit(sd_stop(Log(World, [ev |-> "stop", who |-> "protocol"])))

\* the transport calls ServiceDiscoveryProtocol.connection_lost, again or
\* after a stop
ConnectionLostAgain ==
  /\ ProtocolStarted
  /\ NumHalts < MaxHalts
  /\ SdCommit(sd_connection_lost(Log(World, [ev |-> "connection_lost",
                                             who |-> "transport"])))

\* the clock ticks, up to the bound
HaltTick ==
  /\ NumTicks < MaxHaltTicks
  /\ SdTick

\* the application sets the sub-engines up and starts the protocol; stop()
\* and connection_lost come while the loop is idle
NextHalt ==
  \/ /\ ready = <<>> /\ ~ProtocolStarted
     /\ WatchService(Service(1, ANY_INSTANCE, ANY_MAJOR, ANY_MINOR, {}), "L1")
  \/ /\ ready = <<>> /\ ~ProtocolStarted
     /\ \E inst \in DOMAIN AnnouncedServices : AppAnnounceService(inst)
  \/ ready = <<>> /\ ~ProtocolStarted /\ AppSubscribe(EG1, "p1")
  \/ ready = <<>> /\ SdStart
  \/ ready = <<>> /\ SdStop
  \/ ready = <<>> /\ ConnectionLostAgain
  \/ \E rnd \in Delays : SdRunCallback({}, rnd)
  \/ SdTimerFire
  \/ HaltTick

SpecHalt == InitWithdraw /\ [][NextHalt]_vars

(***************************************************************************)
(* Envelope: datagrams that are not Service Discovery messages, or whose   *)
(* payload is no SD header, arriving among offers                          *)
(***************************************************************************)

\* an offer of S1 that would be seen as a reboot after session id 2, with the
\* given envelope
EnvelopeMessage(service_id, method_id, interface_version, message_type, return_code) ==
  SOMEIPHeader(service_id, method_id, 1, interface_version, message_type, return_code,
               [flag_reboot |-> TRUE, flag_unicast |-> TRUE,
                entries |-> <<create_offer_entry(S1, TTL_FOREVER)>>])

\* the messages message_received has to drop: one wrong envelope field each,
\* and an SD envelope around bytes that are no SD header
DroppedMessages ==
  {EnvelopeMessage(4660, SD_METHOD, SD_INTERFACE_VERSION, "NOTIFICATION", "E_OK"),
   EnvelopeMessage(SD_SERVICE, 1, SD_INTERFACE_VERSION, "NOTIFICATION", "E_OK"),
   EnvelopeMessage(SD_SERVICE, SD_METHOD, 2, "NOTIFICATION", "E_OK"),
   EnvelopeMessage(SD_SERVICE, SD_METHOD, SD_INTERFACE_VERSION, "REQUEST", "E_OK"),
   EnvelopeMessage(SD_SERVICE, SD_METHOD, SD_INTERFACE_VERSION, "NOTIFICATION", "E_NOT_OK"),
   SOMEIPHeader(SD_SERVICE, SD_METHOD, 1, SD_INTERFACE_VERSION, "NOTIFICATION", "E_OK",
                NoEntry)}

\* the datagrams that can arrive from p1 over multicast: offers of S1 with
\* session id 2 and then 1, and the messages to drop
EnvelopeDatagrams ==
  {SdMessage(TRUE, sid, <<create_offer_entry(S1, 2)>>) : sid \in {1, 2}}
  \cup DroppedMessages

NextEnvelope ==
  \/ ready = <<>> /\ \E p \in WatchPairs : WatchService(p[1], p[2])
  \/ \E d \in EnvelopeDatagrams : DatagramArrives(d, "p1", TRUE)
  \/ \E rnd \in Delays : SdRunCallback({}, rnd)
  \/ SdTimerFire
  \/ SdTick

SpecEnvelope == InitFind /\ [][NextEnvelope]_vars

(***************************************************************************)
(* Collect: an application queueing entries with a send collection timeout *)
(***************************************************************************)

\* bound: entries the application queues in a run
MaxQueued == 4

\* the timings with entries collected for 0.02 s
CollectTimings == [TimingsCs EXCEPT !.SEND_COLLECTION_TIMEOUT = 2]

InitCollect ==
  /\ InitSd(CollectTimings)
  /\ stores = [sid \in {"found"} |-> <<>>]
  /\ instances = <<>>

\* number of entries queued so far
NumQueued == Cardinality({i \in DOMAIN trace : trace[i].ev = "queue_send"})

\* the application calls queue_send(entry, remote); the entries of a run
\* differ in their ttl
AppQueueSend(remote) ==
  /\ NumQueued < MaxQueued
  /\ SdCommit(queue_send(World, create_offer_entry(S1, NumQueued + 1), remote))

NextCollect ==
  \/ \E remote \in {None} \cup Peers : AppQueueSend(remote)
  \/ \E rnd \in Delays : SdRunCallback({}, rnd)
  \/ SdTimerFire
  \/ SdTick

SpecCollect == InitCollect /\ [][NextCollect]_vars

(***************************************************************************)
(* Subscribe: an application registering eventgroups, starting and         *)
(* stopping the Subscriber, with and without a refresh interval            *)
(***************************************************************************)

\* bound: ticks of the clock in a run of the Subscriber
MaxSubscribeTicks == 4

\* bound: calls of subscribe_eventgroup in a run
MaxSubscribeCalls == 3

\* bound: calls of stop_subscribe_eventgroup in a run
MaxStopSubscribeCalls == 1

\* the timings of the refresh loop: a refresh every 0.02 s
SubscribeTimings == [TimingsCs EXCEPT !.SUBSCRIBE_REFRESH_INTERVAL = [seconds |-> 2]]

\* the (eventgroup, remote SD endpoint) pairs the application registers
SubscribePairs == {<<EG1, "p1">>, <<EG2, "p1">>, <<EG1, "p2">>}

\* the Subscriber is constructed with a refresh interval or without one
InitSubscribe ==
  /\ \E t \in {SubscribeTimings,
                [SubscribeTimings EXCEPT !.SUBSCRIBE_REFRESH_INTERVAL = NoEntry]} :
       InitSd(t)
  /\ stores = [sid \in {"found"} |-> <<>>]
  /\ instances = <<>>

\* the application calls stop_subscribe_eventgroup for a registered pair
AppStopSubscribe(eventgroup, endpoint) ==
  /\ \E i \in DOMAIN subscriber.subscribeentries :
        subscriber.subscribeentries[i] = <<eventgroup, endpoint>>
  /\ SdCommit(stop_subscribe_eventgroup(Log(World, [ev |-> "stop_subscribe_eventgroup",
                                                    eventgroup |-> eventgroup,
                                                    endpoint |-> endpoint]),
                                        eventgroup, endpoint, TRUE))

\* the application calls ServiceSubscriber.start
AppSubscriberStart ==
  /\ subscriber.starts < MaxStarts
  /\ NumCalls("start", "subscriber") <= MaxStarts
  /\ SdCommit(subscriber_start(Log(World, [ev |-> "start", who |-> "subscriber",
                                           alive |-> subscriber.alive])))

\* the application calls ServiceSubscriber.stop
AppSubscriberStop ==
  /\ subscriber.alive
  /\ SdCommit(subscriber_stop(Log(World, [ev |-> "stop", who |-> "subscriber"]), TRUE))

\* the clock ticks, up to the bound
SubscribeTick ==
  /\ NumTicks < MaxSubscribeTicks
  /\ SdTick

\* the application calls come while the loop is idle
NextSubscribe ==
  \/ /\ ready = <<>>
     /\ Cardinality(EventsNamed("subscribe_eventgroup")) < MaxSubscribeCalls
     /\ \E p \in SubscribePairs : AppSubscribe(p[1], p[2])
  \/ /\ ready = <<>>
     /\ Cardinality(EventsNamed("stop_subscribe_eventgroup")) < MaxStopSubscribeCalls
     /\ \E p \in SubscribePairs : AppStopSubscribe(p[1], p[2])
  \/ ready = <<>> /\ AppSubscriberStart
  \/ ready = <<>> /\ AppSubscriberStop
  \/ \E rnd \in Delays : SdRunCallback({}, rnd)
  \/ SdTimerFire
  \/ SubscribeTick

SpecSubscribe == InitSubscribe /\ [][NextSubscribe]_vars

(***************************************************************************)
(* Unsubscribe: an application registering and unregistering eventgroups   *)
(* and stopping the Subscriber, several calls in one callback, with and    *)
(* without the stop-subscribe                                              *)
(***************************************************************************)

\* bound: ticks of the clock in a run with unsubscriptions
MaxUnsubscribeTicks == 2

\* bound: calls of subscribe_eventgroup in a run with unsubscriptions
MaxUnsubscribeCalls == 2

\* the pairs the application registers and unregisters
UnsubscribePairs == {<<EG1, "p1">>, <<EG2, "p1">>}

\* the application calls stop_subscribe_eventgroup(eventgroup, endpoint, send)
\* for a pair that may or may not be registered
AppStopSubscribeAny(eventgroup, endpoint, send) ==
  SdCommit(stop_subscribe_eventgroup(
             Log(World, [ev |-> "stop_subscribe_eventgroup", eventgroup |-> eventgroup,
                         endpoint |-> endpoint, send |-> send,
                         registered |-> \E i \in DOMAIN subscriber.subscribeentries :
                                           subscriber.subscribeentries[i] = <<eventgroup, endpoint>>]),
             eventgroup, endpoint, send))

\* the application, or connection_lost, calls ServiceSubscriber.stop
AppSubscriberStopAny(send) ==
  /\ NumCalls("stop", "subscriber") < MaxStarts
  /\ SdCommit(subscriber_stop(Log(World, [ev |-> "stop", who |-> "subscriber",
                                          send |-> send, alive |-> subscriber.alive,
                                          entries |-> subscriber.subscribeentries]),
                              send))

\* the clock ticks, up to the bound
UnsubscribeTick ==
  /\ NumTicks < MaxUnsubscribeTicks
  /\ SdTick

\* the application makes its calls from callbacks: a call can follow another
\* before the loop has run what the first one scheduled
NextUnsubscribe ==
  \/ /\ Len(ready) < MaxReady
     /\ Cardinality(EventsNamed("subscribe_eventgroup")) < MaxUnsubscribeCalls
     /\ \E p \in UnsubscribePairs : AppSubscribe(p[1], p[2])
  \/ /\ Len(ready) < MaxReady
     /\ Cardinality(EventsNamed("stop_subscribe_eventgroup")) < MaxStopSubscribeCalls
     /\ \E p \in UnsubscribePairs : \E send \in BOOLEAN : AppStopSubscribeAny(p[1], p[2], send)
  \/ Len(ready) < MaxReady /\ AppSubscriberStart
  \/ Len(ready) < MaxReady /\ \E send \in BOOLEAN : AppSubscriberStopAny(send)
  \/ \E rnd \in Delays : SdRunCallback({}, rnd)
  \/ SdTimerFire
  \/ UnsubscribeTick

SpecUnsubscribe == InitSubscribe /\ [][NextUnsubscribe]_vars

(***************************************************************************)
(* Auto: an AutoSubscribeServiceListener whose callbacks subscribe and     *)
(* unsubscribe  (sd/auto_subscriber.py, config/eventgroup.py)              *)
(***************************************************************************)

\* bound: service_offered callbacks of the listener in a run
MaxAutoOffers == 2

\* bound: service_stopped callbacks of the listener in a run
MaxAutoStops == 2

\* bound: ticks of the clock in a run of the listener
MaxAutoTicks == 2

\* Eventgroup.as_service
as_service(eventgroup) ==
  Service(eventgroup.service_id, eventgroup.instance_id, eventgroup.major_version,
          ANY_MINOR, {})

\* Eventgroup.for_service: the eventgroup with the instance id and major
\* version of service, NoEntry if it does not match the service
for_service(eventgroup, service) ==
  IF ~matches_offer(as_service(eventgroup), create_offer_entry(service, 3))
    THEN NoEntry
    ELSE [eventgroup EXCEPT !.instance_id = service.instance_id,
                            !.major_version = service.major_version]

\* AutoSubscribeServiceListener.service_offered
auto_service_offered(w, eventgroup, service, source) ==
  IF for_service(eventgroup, service) = NoEntry
    THEN w
    ELSE subscribe_eventgroup(w, for_service(eventgroup, service), source)

\* AutoSubscribeServiceListener.service_stopped
auto_service_stopped(w, eventgroup, service, source) ==
  IF for_service(eventgroup, service) = NoEntry
    THEN w
    ELSE stop_subscribe_eventgroup(w, for_service(eventgroup, service), source, TRUE)

\* the eventgroup the listener is constructed with: eventgroup 1 of any
\* instance of service 1
AutoEventgroup == Eventgroup(1, ANY_INSTANCE, ANY_MAJOR, 1)

\* the services the listener is told about: two instances of service 1 and
\* a service its eventgroup does not belong to
AutoServices == {S1, S2, Service(2, 1, 1, 0, {})}

\* Discover calls service_offered of the listener
ListenerOffered(service, source) ==
  /\ Cardinality(EventsNamed("service_offered")) < MaxAutoOffers
  /\ SdCommit(auto_service_offered(
                Log(World, [ev |-> "service_offered", listener |-> "auto",
                            service |-> service, source |-> source]),
                AutoEventgroup, service, source))

\* Discover calls service_stopped of the listener
ListenerStopped(service, source) ==
  /\ Cardinality(EventsNamed("service_stopped")) < MaxAutoStops
  /\ SdCommit(auto_service_stopped(
                Log(World, [ev |-> "service_stopped", listener |-> "auto",
                            service |-> service, source |-> source]),
                AutoEventgroup, service, source))

\* the clock ticks, up to the bound
AutoTick ==
  /\ NumTicks < MaxAutoTicks
  /\ SdTick

\* the callbacks of the listener come from callbacks of the loop: one can
\* follow another before the loop has run what the first one scheduled
NextAuto ==
  \/ /\ Len(ready) < MaxReady
     /\ \E service \in AutoServices : ListenerOffered(service, "p1")
  \/ /\ Len(ready) < MaxReady
     /\ \E service \in AutoServices : ListenerStopped(service, "p1")
  \/ Len(ready) < MaxReady /\ AppSubscriberStart
  \/ \E rnd \in Delays : SdRunCallback({}, rnd)
  \/ SdTimerFire
  \/ AutoTick

SpecAuto == InitSubscribe /\ [][NextAuto]_vars

(***************************************************************************)
(* Wire format  (header/util.py, header/someip_sd_option.py and the option *)
(* classes, header/someip_sd_entry.py, header/someip_sd_header.py,         *)
(* header/someip_header.py)                                                *)
(*                                                                         *)
(* bytes are sequences of 0..255.  A call that can raise returns           *)
(* [raised, value]: raised is None and value the result, or raised is the  *)
(* exception's name.  Integers below 2^31 are all the model has, so a      *)
(* 32-bit field cannot be given a value beyond its width here.             *)
(***************************************************************************)

Ok(value) == [raised |-> None, value |-> value]
Raise(exception) == [raised |-> exception, value |-> NoEntry]

\* the exceptions that are a ParseError (util.py: IncompleteReadError is one)
ParseErrors == {"ParseError", "IncompleteReadError"}

\* buf[a:b] of Python, for 0 <= a
Slice(buf, a, b) ==
  LET hi == IF b < Len(buf) THEN b ELSE Len(buf)
  IN IF hi <= a THEN <<>> ELSE [i \in 1..(hi - a) |-> buf[a + i]]

\* the concatenation of the sequences of a sequence, b"".join
RECURSIVE Join(_)
Join(parts) == IF parts = <<>> THEN <<>> ELSE Head(parts) \o Join(Tail(parts))

\* struct: the size of one format code
calcsize(code) ==
  CASE code = "B" -> 1
    [] code = "H" -> 2
    [] code = "I" -> 4
    [] code = "4s" -> 4
    [] code = "16s" -> 16

\* Struct.size
RECURSIVE struct_size(_)
struct_size(fmt) == IF fmt = <<>> THEN 0 ELSE calcsize(Head(fmt)) + struct_size(Tail(fmt))

\* struct.pack of one value, network byte order; an integer outside the
\* code's range raises struct.error, a bytes value is cut or zero-padded to
\* the size of its "s" code
pack_one(code, v) ==
  CASE code = "B" -> IF v >= 0 /\ v <= 255 THEN Ok(<<v>>) ELSE Raise("struct.error")
    [] code = "H" -> IF v >= 0 /\ v <= 65535 THEN Ok(<<v \div 256, v % 256>>)
                                              ELSE Raise("struct.error")
    [] code = "I" -> IF v >= 0 /\ v \div 65536 <= 65535
                       THEN Ok(<<v \div 16777216, (v \div 65536) % 256, (v \div 256) % 256, v % 256>>)
                       ELSE Raise("struct.error")
    [] OTHER -> Ok([i \in 1..calcsize(code) |-> IF i <= Len(v) THEN v[i] ELSE 0])

\* Struct.pack
RECURSIVE struct_pack(_, _)
struct_pack(fmt, values) ==
  IF fmt = <<>>
    THEN Ok(<<>>)
    ELSE LET first == pack_one(Head(fmt), Head(values))
             rest == struct_pack(Tail(fmt), Tail(values))
         IN IF first.raised # None THEN first
            ELSE IF rest.raised # None THEN rest
            ELSE Ok(first.value \o rest.value)

\* struct.unpack of one value
unpack_one(code, b) ==
  CASE code = "B" -> b[1]
    [] code = "H" -> b[1] * 256 + b[2]
    [] code = "I" -> ((b[1] * 256 + b[2]) * 256 + b[3]) * 256 + b[4]
    [] OTHER -> b

\* Struct.unpack of a buffer of the format's size
RECURSIVE struct_unpack(_, _)
struct_unpack(fmt, buf) ==
  IF fmt = <<>>
    THEN <<>>
    ELSE <<unpack_one(Head(fmt), Slice(buf, 0, calcsize(Head(fmt))))>>
         \o struct_unpack(Tail(fmt), Slice(buf, calcsize(Head(fmt)), Len(buf)))

\* util._unpack: the values and the rest of the buffer
_unpack(fmt, buf) ==
  IF Len(buf) < struct_size(fmt)
    THEN Raise("IncompleteReadError")
    ELSE Ok(<<struct_unpack(fmt, Slice(buf, 0, struct_size(fmt))),
              Slice(buf, struct_size(fmt), Len(buf))>>)

\* ---- SD options ---------------------------------------------------------

\* SOMEIPSDUnknownOption
SOMEIPSDUnknownOption(type, payload) ==
  [cls |-> "SOMEIPSDUnknownOption", type |-> type, payload |-> payload]

\* an option with an IP payload: cls is one of the six concrete classes,
\* address the packed address
AbstractIPOption(cls, address, l4proto, port) ==
  [cls |-> cls, address |-> address, l4proto |-> l4proto, port |-> port]

\* SOMEIPSDLoadBalancingOption
SOMEIPSDLoadBalancingOption(priority, weight) ==
  [cls |-> "SOMEIPSDLoadBalancingOption", priority |-> priority, weight |-> weight]

\* SOMEIPSDConfigOption: configs is a sequence of <<key, value>>, strings being
\* sequences of code points and a missing value None
SOMEIPSDConfigOption(configs) == [cls |-> "SOMEIPSDConfigOption", configs |-> configs]

IPv4Classes == {"IPv4EndpointOption", "IPv4MulticastOption", "IPv4SDEndpointOption"}
IPv6Classes == {"IPv6EndpointOption", "IPv6MulticastOption", "IPv6SDEndpointOption"}

\* the class attribute type of the registered option classes
option_type(cls) ==
  CASE cls = "SOMEIPSDConfigOption" -> 1
    [] cls = "SOMEIPSDLoadBalancingOption" -> 2
    [] cls = "IPv4EndpointOption" -> 4
    [] cls = "IPv6EndpointOption" -> 6
    [] cls = "IPv4MulticastOption" -> 20
    [] cls = "IPv6MulticastOption" -> 22
    [] cls = "IPv4SDEndpointOption" -> 36
    [] cls = "IPv6SDEndpointOption" -> 38

\* SOMEIPSDOption._options: the classes entered by SOMEIPSDOption.register
RegisteredOptions == {"SOMEIPSDConfigOption", "SOMEIPSDLoadBalancingOption"} \cup IPv4Classes \cup IPv6Classes

\* AbstractIPv4Option._format and AbstractIPv6Option._format
ip_format(cls) ==
  IF cls \in IPv4Classes THEN <<"B", "4s", "B", "B", "H">> ELSE <<"B", "16s", "B", "B", "H">>

\* SOMEIPSDOption.build_option
build_option(type_b, buf) ==
  LET hdr == struct_pack(<<"H", "B">>, <<Len(buf), type_b>>)
  IN IF hdr.raised # None THEN hdr ELSE Ok(hdr.value \o buf)

\* str.encode("ascii")
encode_ascii(str) ==
  IF \E i \in DOMAIN str : str[i] > 127 THEN Raise("UnicodeEncodeError") ELSE Ok(str)

\* bytes.decode("ascii")
decode_ascii(b) ==
  IF \E i \in DOMAIN b : b[i] > 127 THEN Raise("UnicodeDecodeError") ELSE Ok(b)

\* the code of "="
EQUALS_SIGN == 61

\* SOMEIPSDConfigOption.build, the bytes one (k, v) of configs adds
build_config(k, v) ==
  LET kb == encode_ascii(k)
      vb == IF v = None THEN Ok(<<>>) ELSE encode_ascii(v)
      n == IF v = None THEN Len(k) ELSE Len(k) + Len(v) + 1
  IN IF n > 255 THEN Raise("ValueError")
     ELSE IF kb.raised # None THEN kb
     ELSE IF vb.raised # None THEN vb
     ELSE Ok(<<n>> \o kb.value \o (IF v = None THEN <<>> ELSE <<EQUALS_SIGN>> \o vb.value))

\* SOMEIPSDConfigOption.build, the loop over configs
RECURSIVE build_configs(_)
build_configs(configs) ==
  IF configs = <<>>
    THEN Ok(<<>>)
    ELSE LET first == build_config(Head(configs)[1], Head(configs)[2])
             rest == build_configs(Tail(configs))
         IN IF first.raised # None THEN first
            ELSE IF rest.raised # None THEN rest
            ELSE Ok(first.value \o rest.value)

\* SOMEIPSDUnknownOption.build
unknown_option_build(self) == build_option(self.type, self.payload)

\* SOMEIPSDLoadBalancingOption.build
lb_option_build(self) ==
  LET payload == struct_pack(<<"B", "H", "H">>, <<0, self.priority, self.weight>>)
  IN IF payload.raised # None THEN payload
     ELSE build_option(option_type(self.cls), payload.value)

\* SOMEIPSDConfigOption.build
config_option_build(self) ==
  LET body == build_configs(self.configs)
  IN IF body.raised # None THEN body
     ELSE build_option(option_type(self.cls), <<0>> \o body.value \o <<0>>)

\* AbstractIPOption.build
ip_option_build(self) ==
  LET payload == struct_pack(ip_format(self.cls), <<0, self.address, 0, self.l4proto, self.port>>)
  IN IF payload.raised # None THEN payload
     ELSE build_option(option_type(self.cls), payload.value)

\* option.build(), by the class of the option
option_build(self) ==
  CASE self.cls = "SOMEIPSDUnknownOption" -> unknown_option_build(self)
    [] self.cls = "SOMEIPSDLoadBalancingOption" -> lb_option_build(self)
    [] self.cls = "SOMEIPSDConfigOption" -> config_option_build(self)
    [] OTHER -> ip_option_build(self)

\* bytes.find(b"="): the offset of the first "=" or -1
find_equals(b) ==
  IF \E i \in DOMAIN b : b[i] = EQUALS_SIGN
    THEN (CHOOSE i \in DOMAIN b : b[i] = EQUALS_SIGN /\ \A j \in 1..(i - 1) : b[j] # EQUALS_SIGN) - 1
    ELSE -1

\* SOMEIPSDConfigOption.parse_option, the while loop: nextlen is the length
\* byte read last and b the bytes after it
RECURSIVE parse_configs(_, _)
parse_configs(nextlen, b) ==
  IF nextlen = 0
    THEN Ok(<<>>)
    ELSE IF Len(b) < nextlen + 1
    THEN Raise("ParseError")
    ELSE LET cfg_str == Slice(b, 0, nextlen)
             split == find_equals(cfg_str)
             key == decode_ascii(IF split = -1 THEN cfg_str ELSE Slice(cfg_str, 0, split))
             value == IF split = -1 THEN Ok(None)
                      ELSE decode_ascii(Slice(cfg_str, split + 1, nextlen))
             rest == parse_configs(b[nextlen + 1], Slice(b, nextlen + 1, Len(b)))
         IN IF key.raised # None THEN key
            ELSE IF value.raised # None THEN value
            ELSE IF rest.raised # None THEN rest
            ELSE Ok(<<<<key.value, value.value>>>> \o rest.value)

\* SOMEIPSDLoadBalancingOption.parse_option
lb_parse_option(buf) ==
  IF Len(buf) # 5 THEN Raise("ParseError")
  ELSE LET v == struct_unpack(<<"H", "H">>, Slice(buf, 1, Len(buf)))
       IN Ok(SOMEIPSDLoadBalancingOption(v[1], v[2]))

\* SOMEIPSDConfigOption.parse_option
config_parse_option(buf) ==
  IF Len(buf) < 2 THEN Raise("ParseError")
  ELSE LET configs == parse_configs(buf[2], Slice(buf, 2, Len(buf)))
       IN IF configs.raised # None THEN configs
          ELSE Ok(SOMEIPSDConfigOption(configs.value))

\* AbstractIPOption.parse_option
ip_parse_option(cls, buf) ==
  IF Len(buf) # struct_size(ip_format(cls)) THEN Raise("ParseError")
  ELSE LET v == struct_unpack(ip_format(cls), buf)
       IN Ok(AbstractIPOption(cls, v[2], v[4], v[5]))

\* opt_cls.parse_option(opt_b), by the registered class
parse_option(cls, buf) ==
  CASE cls = "SOMEIPSDLoadBalancingOption" -> lb_parse_option(buf)
    [] cls = "SOMEIPSDConfigOption" -> config_parse_option(buf)
    [] OTHER -> ip_parse_option(cls, buf)

\* SOMEIPSDOption.parse: the option and the rest of the buffer
SOMEIPSDOption_parse(buf) ==
  LET head == _unpack(<<"H", "B">>, buf)
  IN IF head.raised # None THEN head
     ELSE LET len_b == head.value[1][1]
              type_b == head.value[1][2]
              buf_rest == head.value[2]
              opt_b == Slice(buf_rest, 0, len_b)
              rest == Slice(buf_rest, len_b, Len(buf_rest))
          IN IF Len(buf_rest) < len_b THEN Raise("ParseError")
             ELSE IF \A cls \in RegisteredOptions : option_type(cls) # type_b
             THEN Ok(<<SOMEIPSDUnknownOption(type_b, opt_b), rest>>)
             ELSE LET opt == parse_option(CHOOSE cls \in RegisteredOptions : option_type(cls) = type_b, opt_b)
                  IN IF opt.raised # None THEN opt ELSE Ok(<<opt.value, rest>>)

\* ---- SD entries with their option runs ------------------------------------

\* a typing.Optional[int] field: <<>> is None, <<v>> the integer v
Absent == <<>>
Some(v) == <<v>>

\* a | b and a & b of two non-negative integers
RECURSIVE BitOr(_, _)
BitOr(a, b) ==
  IF a = 0 THEN b
  ELSE IF b = 0 THEN a
  ELSE (IF a % 2 = 1 \/ b % 2 = 1 THEN 1 ELSE 0) + 2 * BitOr(a \div 2, b \div 2)

RECURSIVE BitAnd(_, _)
BitAnd(a, b) ==
  IF a = 0 \/ b = 0 THEN 0
  ELSE (IF a % 2 = 1 /\ b % 2 = 1 THEN 1 ELSE 0) + 2 * BitAnd(a \div 2, b \div 2)

\* SOMEIPSDEntryType: the value of a member, and the members
sd_type_value(sd_type) ==
  CASE sd_type = "FindService" -> 0
    [] sd_type = "OfferService" -> 1
    [] sd_type = "Subscribe" -> 6
    [] sd_type = "SubscribeAck" -> 7

SOMEIPSDEntryType == {"FindService", "OfferService", "Subscribe", "SubscribeAck"}

\* SOMEIPSDEntry.__format
entry_format == <<"B", "B", "B", "B", "H", "H", "B", "B", "H", "I">>

\* a SOMEIPSDEntry with resolved options: the option index fields are None
with_options(entry, options_1, options_2) ==
  [sd_type |-> entry.sd_type, service_id |-> entry.service_id,
   instance_id |-> entry.instance_id, major_version |-> entry.major_version,
   ttl |-> entry.ttl, minver_or_counter |-> entry.minver_or_counter,
   options_1 |-> options_1, options_2 |-> options_2,
   option_index_1 |-> Absent, option_index_2 |-> Absent,
   num_options_1 |-> Absent, num_options_2 |-> Absent]

\* a SOMEIPSDEntry with the four index fields as given and no resolved options
with_indexes(entry, option_index_1, option_index_2, num_options_1, num_options_2) ==
  [with_options(entry, <<>>, <<>>) EXCEPT
     !.option_index_1 = option_index_1, !.option_index_2 = option_index_2,
     !.num_options_1 = num_options_1, !.num_options_2 = num_options_2]

\* SOMEIPSDEntry.options_resolved
options_resolved(self) ==
  \/ self.option_index_1 = Absent
  \/ self.option_index_2 = Absent
  \/ self.num_options_1 = Absent
  \/ self.num_options_2 = Absent

\* resolve_options taking run 2 from the place of run 1
entry_resolve_options_run1(self, options) ==
  IF options_resolved(self)
    THEN Raise("ValueError")
    ELSE LET oi1 == self.option_index_1[1]
             no1 == self.num_options_1[1]
             no2 == self.num_options_2[1]
         IN Ok([self EXCEPT !.options_1 = Slice(options, oi1, oi1 + no1),
                            !.options_2 = Slice(options, oi1, oi1 + no2),
                            !.option_index_1 = Absent, !.option_index_2 = Absent,
                            !.num_options_1 = Absent, !.num_options_2 = Absent])

\* SOMEIPSDEntry.resolve_options
entry_resolve_options(self, options) ==
  IF options_resolved(self)
    THEN Raise("ValueError")
    ELSE LET oi1 == self.option_index_1[1]
             oi2 == self.option_index_2[1]
             no1 == self.num_options_1[1]
             no2 == self.num_options_2[1]
         IN Ok([self EXCEPT !.options_1 = Slice(options, oi1, oi1 + no1),
                            !.options_2 = Slice(options, oi2, oi2 + no2),
                            !.option_index_1 = Absent, !.option_index_2 = Absent,
                            !.num_options_1 = Absent, !.num_options_2 = Absent])

\* what _find returns for None
NotFound == -1

\* a skip table without keys: every mismatch moves on by the needle's length
skip_get_whole(needle, x) == Len(needle)

\* util._find, the dict skip: needle[i] -> n - i - 1 for i in range(n - 1), a
\* later i replacing an earlier one; n for an element that is no key
skip_get(needle, x) ==
  LET n == Len(needle)
      keys == {i \in 0..(n - 2) : needle[i + 1] = x}
  IN IF keys = {} THEN n
     ELSE n - (CHOOSE i \in keys : \A k \in keys : k <= i) - 1

\* util._find, the while loop from position i (counted from 0)
RECURSIVE find_from(_, _, _)
find_from(haystack, needle, i) ==
  LET n == Len(needle)
  IN IF ~(i < Len(haystack))
       THEN NotFound
       ELSE IF \E j \in 0..(n - 1) : haystack[i - j + 1] # needle[n - j]
       THEN find_from(haystack, needle, i + skip_get(needle, haystack[i + 1]))
       ELSE i - n + 1

\* util._find (Boyer-Moore-Horspool)
_find(haystack, needle) == find_from(haystack, needle, Len(needle) - 1)

\* SOMEIPSDEntry._assign_option: the pair it returns and the list it extended
_assign_option(entry_options, hdr_options) ==
  IF entry_options = <<>>
    THEN [oi |-> 0, no |-> 0, hdr_options |-> hdr_options]
    ELSE LET found == _find(hdr_options, entry_options)
         IN IF found = NotFound
              THEN [oi |-> Len(hdr_options), no |-> Len(entry_options),
                    hdr_options |-> hdr_options \o entry_options]
              ELSE [oi |-> found, no |-> Len(entry_options), hdr_options |-> hdr_options]

\* SOMEIPSDEntry.assign_option_index: the new entry and the list it extended
assign_option_index(self, options) ==
  IF ~options_resolved(self)
    THEN [entry |-> self, options |-> options]
    ELSE LET a1 == _assign_option(self.options_1, options)
             a2 == _assign_option(self.options_2, a1.hdr_options)
         IN [entry |-> [self EXCEPT !.option_index_1 = Some(a1.oi), !.option_index_2 = Some(a2.oi),
                                    !.num_options_1 = Some(a1.no), !.num_options_2 = Some(a2.no),
                                    !.options_1 = <<>>, !.options_2 = <<>>],
             options |-> a2.hdr_options]

\* SOMEIPSDEntry.parse: the entry and the rest of the buffer
SOMEIPSDEntry_parse(buf, num_options) ==
  LET head == _unpack(entry_format, buf)
  IN IF head.raised # None THEN head
     ELSE LET v == head.value[1]
              no1 == v[4] \div 16
              no2 == v[4] % 16
              ttl == v[8] * 65536 + v[9]
          IN IF v[1] \notin {sd_type_value(t) : t \in SOMEIPSDEntryType} THEN Raise("ParseError")
             ELSE IF v[2] + no1 > num_options THEN Raise("ParseError")
             ELSE IF v[3] + no2 > num_options THEN Raise("ParseError")
             ELSE IF v[1] \in {sd_type_value("Subscribe"), sd_type_value("SubscribeAck")}
                     /\ v[10] \div 1048576 # 0
             THEN Raise("ParseError")
             ELSE Ok(<<with_indexes([sd_type |-> CHOOSE t \in SOMEIPSDEntryType : sd_type_value(t) = v[1],
                                     service_id |-> v[5], instance_id |-> v[6],
                                     major_version |-> v[7], ttl |-> ttl,
                                     minver_or_counter |-> v[10]],
                                    Some(v[2]), Some(v[3]), Some(no1), Some(no2)),
                       head.value[2]>>)

\* SOMEIPSDEntry.build
SOMEIPSDEntry_build(self) ==
  IF options_resolved(self)
    THEN Raise("ValueError")
    ELSE struct_pack(entry_format,
                     <<sd_type_value(self.sd_type),
                       self.option_index_1[1],
                       self.option_index_2[1],
                       BitOr(self.num_options_1[1] * 16, self.num_options_2[1]),
                       self.service_id,
                       self.instance_id,
                       self.major_version,
                       self.ttl \div 65536,
                       self.ttl % 65536,
                       self.minver_or_counter>>)

\* ---- SD header ------------------------------------------------------------

\* a SOMEIPSDHeader
SOMEIPSDHeader(entries, options, flag_reboot, flag_unicast, flags_unknown) ==
  [entries |-> entries, options |-> options, flag_reboot |-> flag_reboot,
   flag_unicast |-> flag_unicast, flags_unknown |-> flags_unknown]

\* SOMEIPSDHeader.resolve_options, the list comprehension over the entries
RECURSIVE resolve_entries(_, _)
resolve_entries(entries, options) ==
  IF entries = <<>>
    THEN Ok(<<>>)
    ELSE LET first == entry_resolve_options(Head(entries), options)
             rest == resolve_entries(Tail(entries), options)
         IN IF first.raised # None THEN first
            ELSE IF rest.raised # None THEN rest
            ELSE Ok(<<first.value>> \o rest.value)

\* SOMEIPSDHeader.resolve_options
resolve_options(self) ==
  LET entries == resolve_entries(self.entries, self.options)
  IN IF entries.raised # None THEN entries
     ELSE Ok([self EXCEPT !.entries = entries.value])

\* SOMEIPSDHeader.assign_option_indexes, the list comprehension over the
\* entries, each extending the list options
RECURSIVE assign_entries(_, _)
assign_entries(entries, options) ==
  IF entries = <<>>
    THEN [entries |-> <<>>, options |-> options]
    ELSE LET first == assign_option_index(Head(entries), options)
             rest == assign_entries(Tail(entries), first.options)
         IN [entries |-> <<first.entry>> \o rest.entries, options |-> rest.options]

\* SOMEIPSDHeader.assign_option_indexes
assign_option_indexes(self) ==
  LET assigned == assign_entries(self.entries, self.options)
  IN [self EXCEPT !.entries = assigned.entries, !.options = assigned.options]

\* SOMEIPSDHeader.parse, the loop over options_buffer: options is the list
\* built so far
RECURSIVE parse_options(_, _)
parse_options(options_buffer, options) ==
  IF options_buffer = <<>>
    THEN Ok(options)
    ELSE LET option == SOMEIPSDOption_parse(options_buffer)
         IN IF option.raised # None THEN option
            ELSE parse_options(option.value[2], Append(options, option.value[1]))

\* SOMEIPSDHeader.parse, the loop over entries_buffer: entries is the list
\* built so far
RECURSIVE parse_entries(_, _, _)
parse_entries(entries_buffer, num_options, entries) ==
  IF entries_buffer = <<>>
    THEN Ok(entries)
    ELSE LET entry == SOMEIPSDEntry_parse(entries_buffer, num_options)
         IN IF entry.raised # None THEN entry
            ELSE parse_entries(entry.value[2], num_options, Append(entries, entry.value[1]))

\* SOMEIPSDHeader.parse: the header and the rest of the buffer
SOMEIPSDHeader_parse(buf) ==
  IF Len(buf) < 12
    THEN Raise("ParseError")
    ELSE LET flags == buf[1]
             entries_length == unpack_one("I", Slice(buf, 4, 8))
             rest_buf == Slice(buf, 8, Len(buf))
         IN IF Len(rest_buf) < entries_length + 4
              THEN Raise("ParseError")
              ELSE LET entries_buffer == Slice(rest_buf, 0, entries_length)
                       rest_buf2 == Slice(rest_buf, entries_length, Len(rest_buf))
                       options_length == unpack_one("I", Slice(rest_buf2, 0, 4))
                       rest_buf3 == Slice(rest_buf2, 4, Len(rest_buf2))
                   IN IF Len(rest_buf3) < options_length
                        THEN Raise("ParseError")
                        ELSE LET options == parse_options(Slice(rest_buf3, 0, options_length), <<>>)
                                 entries == parse_entries(entries_buffer, Len(options.value), <<>>)
                             IN IF options.raised # None THEN options
                                ELSE IF entries.raised # None THEN entries
                                ELSE Ok(<<SOMEIPSDHeader(entries.value, options.value,
                                                         BitAnd(flags, 128) # 0,
                                                         BitAnd(flags, 64) # 0,
                                                         BitAnd(flags, 63)),
                                          Slice(rest_buf3, options_length, Len(rest_buf3))>>)

\* b"".join(e.build() for e in ...) over entries or options; the first item
\* that raises ends the join
RECURSIVE build_all(_, _)
build_all(kind, items) ==
  IF items = <<>>
    THEN Ok(<<>>)
    ELSE IF Len(items) = 1
    THEN (IF kind = "entries" THEN SOMEIPSDEntry_build(items[1]) ELSE option_build(items[1]))
    ELSE LET half == Len(items) \div 2
             first == build_all(kind, Slice(items, 0, half))
             rest == build_all(kind, Slice(items, half, Len(items)))
         IN IF first.raised # None THEN first
            ELSE IF rest.raised # None THEN rest
            ELSE Ok(first.value \o rest.value)

\* SOMEIPSDHeader.build
SOMEIPSDHeader_build(self) ==
  LET flags == BitOr(BitOr(self.flags_unknown, IF self.flag_reboot THEN 128 ELSE 0),
                     IF self.flag_unicast THEN 64 ELSE 0)
      entries_buf == build_all("entries", self.entries)
      options_buf == build_all("options", self.options)
  IN IF flags < 0 \/ flags > 255 THEN Raise("ValueError")
     ELSE IF entries_buf.raised # None THEN entries_buf
     ELSE IF options_buf.raised # None THEN options_buf
     ELSE LET entries_len == pack_one("I", Len(entries_buf.value))
              options_len == pack_one("I", Len(options_buf.value))
          IN Ok(<<flags, 0, 0, 0>> \o entries_len.value \o entries_buf.value
                \o options_len.value \o options_buf.value)

\* ---- SOME/IP header -------------------------------------------------------

\* SOMEIPMessageType and SOMEIPReturnCode: the value of a member
message_type_value(message_type) ==
  CASE message_type = "REQUEST" -> 0
    [] message_type = "REQUEST_NO_RETURN" -> 1
    [] message_type = "NOTIFICATION" -> 2
    [] message_type = "REQUEST_ACK" -> 64
    [] message_type = "REQUEST_NO_RETURN_ACK" -> 65
    [] message_type = "NOTIFICATION_ACK" -> 66
    [] message_type = "RESPONSE" -> 128
    [] message_type = "ERROR" -> 129
    [] message_type = "RESPONSE_ACK" -> 192
    [] message_type = "ERROR_ACK" -> 193

SOMEIPMessageType ==
  {"REQUEST", "REQUEST_NO_RETURN", "NOTIFICATION", "REQUEST_ACK", "REQUEST_NO_RETURN_ACK",
   "NOTIFICATION_ACK", "RESPONSE", "ERROR", "RESPONSE_ACK", "ERROR_ACK"}

\* SOMEIPReturnCode, in the order of its values 0 .. 10
SOMEIPReturnCode ==
  <<"E_OK", "E_NOT_OK", "E_UNKNOWN_SERVICE", "E_UNKNOWN_METHOD", "E_NOT_READY",
    "E_NOT_REACHABLE", "E_TIMEOUT", "E_WRONG_PROTOCOL_VERSION",
    "E_WRONG_INTERFACE_VERSION", "E_MALFORMED_MESSAGE", "E_WRONG_MESSAGE_TYPE">>

return_code_value(return_code) ==
  (CHOOSE i \in DOMAIN SOMEIPReturnCode : SOMEIPReturnCode[i] = return_code) - 1

\* SOMEIPHeader.__format
header_format == <<"H", "H", "I", "H", "H", "B", "B", "B", "B">>

\* a SOMEIPHeader with all its fields, payload being bytes
SOMEIPPacket(h, client_id, protocol_version, payload) ==
  [service_id |-> h.service_id, method_id |-> h.method_id, client_id |-> client_id,
   session_id |-> h.session_id, interface_version |-> h.interface_version,
   message_type |-> h.message_type, protocol_version |-> protocol_version,
   return_code |-> h.return_code, payload |-> payload]

\* SOMEIPHeader._parse_header: size and the header without its payload
_parse_header(parsed) ==
  IF parsed[6] # 1 THEN Raise("ParseError")
  ELSE IF parsed[8] \notin {message_type_value(t) : t \in SOMEIPMessageType} THEN Raise("ParseError")
  ELSE IF parsed[9] \notin {i - 1 : i \in DOMAIN SOMEIPReturnCode} THEN Raise("ParseError")
  ELSE IF parsed[3] < 8 THEN Raise("ParseError")
  ELSE Ok(<<parsed[3],
            [service_id |-> parsed[1], method_id |-> parsed[2], client_id |-> parsed[4],
             session_id |-> parsed[5], interface_version |-> parsed[7],
             message_type |-> CHOOSE t \in SOMEIPMessageType : message_type_value(t) = parsed[8],
             protocol_version |-> parsed[6],
             return_code |-> SOMEIPReturnCode[parsed[9] + 1], payload |-> <<>>]>>)

\* SOMEIPHeader.parse: the header and the rest of the buffer
SOMEIPHeader_parse(buf) ==
  LET head == _unpack(header_format, buf)
  IN IF head.raised # None THEN head
     ELSE LET hdr == _parse_header(head.value[1])
          IN IF hdr.raised # None THEN hdr
             ELSE LET size == hdr.value[1]
                      buf_rest == head.value[2]
                  IN IF Len(buf_rest) < size - 8
                       THEN Raise("IncompleteReadError")
                       ELSE Ok(<<[hdr.value[2] EXCEPT !.payload = Slice(buf_rest, 0, size - 8)],
                                 Slice(buf_rest, size - 8, Len(buf_rest))>>)

\* build writing the length of the payload alone into the length field
SOMEIPHeader_build_short(self) ==
  LET size == Len(self.payload)
      hdr == struct_pack(header_format,
                         <<self.service_id, self.method_id, size, self.client_id,
                           self.session_id, self.protocol_version, self.interface_version,
                           message_type_value(self.message_type),
                           return_code_value(self.return_code)>>)
  IN IF hdr.raised # None THEN hdr ELSE Ok(hdr.value \o self.payload)

\* SOMEIPHeader.build
SOMEIPHeader_build(self) ==
  LET size == Len(self.payload) + 8
      hdr == struct_pack(header_format,
                         <<self.service_id, self.method_id, size, self.client_id,
                           self.session_id, self.protocol_version, self.interface_version,
                           message_type_value(self.message_type),
                           return_code_value(self.return_code)>>)
  IN IF hdr.raised # None THEN hdr ELSE Ok(hdr.value \o self.payload)

(***************************************************************************)
(* SD headers through the wire format: a header is given, its option       *)
(* indexes are assigned, it is built, the bytes are parsed and the parsed  *)
(* header's options resolved                                               *)
(***************************************************************************)

\* bound: options in a run of the headers whose runs are enumerated
MaxRun == 2

\* bound: entries of the headers whose runs are enumerated
MaxWireEntries == 2

\* the wire limits of an entry's option reference: num_options is 4 bit,
\* option_index 8 bit
RUN_MAX == 15
OPTIONS_MAX == 255

OptA == AbstractIPOption("IPv4EndpointOption", <<192, 168, 0, 1>>, 17, 30490)
OptB == AbstractIPOption("IPv4EndpointOption", <<192, 168, 0, 1>>, 6, 30490)

\* one option of every other class: "k" and "k=v" as configs, an option type
\* that is not registered
OtherOptions ==
  <<AbstractIPOption("IPv6MulticastOption", [i \in 1..16 |-> IF i = 1 THEN 255 ELSE i], 17, 65535),
    AbstractIPOption("IPv4SDEndpointOption", <<10, 0, 0, 255>>, 255, 0),
    SOMEIPSDLoadBalancingOption(65535, 1),
    SOMEIPSDConfigOption(<<<<(<<107>>), None>>, <<(<<107>>), (<<118>>)>>, <<(<<107>>), (<<>>)>>>>),
    SOMEIPSDConfigOption(<<>>),
    SOMEIPSDUnknownOption(119, <<1, 2, 3>>),
    SOMEIPSDUnknownOption(255, <<>>)>>

\* the sequences over S of length at most n
SeqsUpTo(S, n) == UNION {[1..k -> S] : k \in 0..n}

\* the option runs that are enumerated
Runs == SeqsUpTo({OptA, OptB}, MaxRun)

\* the entry that carries the runs
RunEntry(options_1, options_2) ==
  with_options(SOMEIPSDEntry("OfferService", 4660, 1, 1, 3, 0), options_1, options_2)

\* headers with every choice of runs for at most MaxWireEntries entries, with
\* or without options already in the header
RunHeaders ==
  {SOMEIPSDHeader(entries, options, FALSE, TRUE, 0) :
     entries \in SeqsUpTo({RunEntry(r[1], r[2]) : r \in Runs \X Runs}, MaxWireEntries),
     options \in {<<>>, <<OptA>>, <<OptB, OptA>>}}

\* headers whose runs are longer: runs of three options, a run of RUN_MAX
\* options, OPTIONS_MAX options in all, and options of every class
LongHeaders ==
  {SOMEIPSDHeader(<<RunEntry(r1, r2), RunEntry(r2, <<OptA, OptB, OptA>>)>>, <<>>, FALSE, TRUE, 0) :
     r1 \in {<<OptA, OptB>>, <<OptB, OptA, OptB>>, <<OptA, OptA, OptB>>},
     r2 \in {<<OptA, OptA, OptA>>, <<OptB, OptA>>, <<OptA, OptB, OptA, OptB, OptA>>}}
  \cup {SOMEIPSDHeader(<<RunEntry([i \in 1..RUN_MAX |-> OptA], [i \in 1..RUN_MAX |-> OptB])>>,
                       [i \in 1..n |-> IF i % 16 = 0 THEN OptB ELSE OptA], FALSE, TRUE, 0) :
          n \in {0, OPTIONS_MAX - RUN_MAX, OPTIONS_MAX, OPTIONS_MAX + 1}}
  \cup {SOMEIPSDHeader(<<RunEntry(OtherOptions, <<OtherOptions[4], OtherOptions[1]>>)>>,
                       options, FALSE, TRUE, 0) : options \in {<<>>, <<OtherOptions[6]>>}}

\* entries with each field at both ends of its range; the counter of a
\* Subscribe has 4 bits
FieldEntries ==
  {with_options(SOMEIPSDEntry(t, id, id, major_version, ttl, minver_or_counter), <<>>, run) :
     t \in {"FindService", "OfferService"}, id \in {0, 65535}, major_version \in {0, 255},
     ttl \in {0, 16777215}, minver_or_counter \in {0, ANY_MINOR}, run \in {<<>>, <<OptA>>}}
  \cup {with_options(SOMEIPSDEntry(t, 1, 65535, 255, ttl, minver_or_counter), run, <<>>) :
          t \in {"Subscribe", "SubscribeAck"}, ttl \in {0, 65536, 16777215},
          minver_or_counter \in {0, 65535, 983040, 1048575}, run \in {<<>>, <<OptB>>}}

\* headers with every choice of flags
FieldHeaders ==
  {SOMEIPSDHeader(<<e>>, <<>>, flag_reboot, flag_unicast, flags_unknown) :
     e \in FieldEntries, flag_reboot \in BOOLEAN, flag_unicast \in BOOLEAN,
     flags_unknown \in {0, 1, 63}}

\* headers whose entries carry option indexes, inside and outside the options
\* of the header; a Subscribe whose counter has more than 4 bits; options
\* that do not parse as the class their type stands for
IndexedHeaders ==
  {SOMEIPSDHeader(<<with_indexes(SOMEIPSDEntry(t, 1, 1, 1, 3, minver_or_counter),
                                 Some(oi1), Some(oi2), Some(no1), Some(no2))>>,
                  options, FALSE, TRUE, 0) :
     t \in {"OfferService", "Subscribe"}, minver_or_counter \in {0, 1048575, 1048576},
     oi1 \in {0, 2}, oi2 \in {0, 1, 255}, no1 \in {0, 1}, no2 \in {0, 1, 2, 15},
     options \in {<<>>, <<OptA, OptB>>,
                  <<OptA, SOMEIPSDUnknownOption(1, <<0, 1, 200, 0>>)>>,
                  <<OptA, SOMEIPSDUnknownOption(2, <<0, 1>>)>>}}

\* the headers given
WireHeaders == RunHeaders \cup LongHeaders \cup FieldHeaders \cup IndexedHeaders

\* bytes cut off the end of a built header before it is parsed
WireCuts == {1, 17}

InitWire ==
  /\ SessInit
  /\ ThreadsIdle
  /\ SdIdle
  /\ ready = <<>>
  /\ timers = {}
  /\ stores = <<>>
  /\ notified = <<>>
  /\ owed = <<>>
  /\ last_ttl = <<>>
  /\ \E given \in WireHeaders :
        wire = [given |-> given, assigned |-> NoEntry, built |-> NoEntry, cut |-> 0,
                parsed |-> NoEntry, resolved |-> NoEntry]

\* a step of the wire format leaves everything else alone
WireCommit(new) ==
  /\ wire' = new
  /\ UNCHANGED <<sessVars, threadVars, loopVars, storeUserVars, sdVars>>

\* header = header.assign_option_indexes()
WireAssign ==
  /\ wire.assigned = NoEntry
  /\ WireCommit([wire EXCEPT !.assigned = assign_option_indexes(wire.given)])

\* buf = header.build()
WireBuild ==
  /\ wire.assigned # NoEntry
  /\ wire.built = NoEntry
  /\ WireCommit([wire EXCEPT !.built = SOMEIPSDHeader_build(wire.assigned)])

\* the end of the datagram is lost
WireCut(n) ==
  /\ wire.built # NoEntry
  /\ wire.built.raised = None
  /\ wire.cut = 0
  /\ wire.parsed = NoEntry
  /\ n <= Len(wire.built.value)
  /\ WireCommit([wire EXCEPT !.cut = n,
                             !.built = Ok(Slice(wire.built.value, 0, Len(wire.built.value) - n))])

\* SOMEIPSDHeader.parse(buf)
WireParse ==
  /\ wire.built # NoEntry
  /\ wire.built.raised = None
  /\ wire.parsed = NoEntry
  /\ WireCommit([wire EXCEPT !.parsed = SOMEIPSDHeader_parse(wire.built.value)])

\* parsed.resolve_options()
WireResolve ==
  /\ wire.parsed # NoEntry
  /\ wire.parsed.raised = None
  /\ wire.resolved = NoEntry
  /\ WireCommit([wire EXCEPT !.resolved = resolve_options(wire.parsed.value[1])])

NextWire ==
  \/ WireAssign
  \/ WireBuild
  \/ \E n \in WireCuts : WireCut(n)
  \/ WireParse
  \/ WireResolve

SpecWire == InitWire /\ [][NextWire]_vars

(***************************************************************************)
(* A single SD entry through build and parse                               *)
(***************************************************************************)

\* the entry whose fields are varied
BaseEntry == SOMEIPSDEntry("OfferService", 1, 1, 1, 3, 0)

\* entries with option indexes and counts at and beyond the ends of their wire
\* widths (8 bit and 4 bit); with the other fields at and beyond theirs (16,
\* 16, 8 and 24 bit; minver_or_counter within the integers of the model); and
\* with some or all of the four index fields None
BuildEntries ==
  {with_indexes(BaseEntry, Some(oi1), Some(oi2), Some(no1), Some(no2)) :
     oi1 \in {0, 255, 256}, oi2 \in {0, 255, 256}, no1 \in {0, 15, 16}, no2 \in {0, 1, 15, 16, 255, 256}}
  \cup {with_indexes(SOMEIPSDEntry(t, service_id, instance_id, major_version, ttl, minver_or_counter),
                     Some(0), Some(0), Some(0), Some(0)) :
          t \in SOMEIPSDEntryType, service_id \in {0, 65535, 65536}, instance_id \in {0, 65535, 65536},
          major_version \in {0, 255, 256}, ttl \in {-1, 0, 16777215, 16777216},
          minver_or_counter \in {0, 1048575, ANY_MINOR}}
  \cup {with_indexes(BaseEntry, oi1, oi2, no1, no2) :
          oi1 \in {Absent, Some(0)}, oi2 \in {Absent, Some(1)},
          no1 \in {Absent, Some(0)}, no2 \in {Absent, Some(2)}}

\* len(options) of the header the entry is parsed for
ParseNumOptions == {0, 16, 512}

InitEntry ==
  /\ SessInit
  /\ ThreadsIdle
  /\ SdIdle
  /\ ready = <<>>
  /\ timers = {}
  /\ stores = <<>>
  /\ notified = <<>>
  /\ owed = <<>>
  /\ last_ttl = <<>>
  /\ \E given \in BuildEntries :
        wire = [given |-> given, built |-> NoEntry, num_options |-> 0, parsed |-> NoEntry]

\* buf = entry.build()
EntryBuild ==
  /\ wire.built = NoEntry
  /\ WireCommit([wire EXCEPT !.built = SOMEIPSDEntry_build(wire.given)])

\* SOMEIPSDEntry.parse(buf, num_options)
EntryParse(num_options) ==
  /\ wire.built # NoEntry
  /\ wire.built.raised = None
  /\ wire.parsed = NoEntry
  /\ WireCommit([wire EXCEPT !.num_options = num_options,
                             !.parsed = SOMEIPSDEntry_parse(wire.built.value, num_options)])

NextEntry ==
  \/ EntryBuild
  \/ \E num_options \in ParseNumOptions : EntryParse(num_options)

SpecEntry == InitEntry /\ [][NextEntry]_vars

(***************************************************************************)
(* A SOME/IP header with its payload through build and parse               *)
(***************************************************************************)

\* payloads: none, one byte, and 300 bytes (the low byte of the length field
\* wraps)
PacketPayloads == {<<>>, <<0>>, <<255, 0, 128>>, [i \in 1..300 |-> i % 256]}

\* headers with each field at both ends of its range and every message type
Packets ==
  {SOMEIPPacket(SOMEIPHeader(service_id, method_id, session_id, interface_version,
                             message_type, return_code, NoEntry),
                client_id, 1, payload) :
     service_id \in {0, SD_SERVICE}, method_id \in {0, SD_METHOD}, session_id \in {0, 65535},
     interface_version \in {0, 255}, message_type \in SOMEIPMessageType,
     return_code \in {"E_OK", "E_NOT_OK", "E_WRONG_MESSAGE_TYPE"},
     client_id \in {0, 65535}, payload \in PacketPayloads}

\* headers of another protocol version or with a field beyond its width
OtherPackets ==
  {SOMEIPPacket(SOMEIPHeader(service_id, 1, session_id, interface_version,
                             "NOTIFICATION", "E_OK", NoEntry),
                client_id, protocol_version, <<1, 2>>) :
     service_id \in {1, 65536}, session_id \in {1, 65536}, interface_version \in {1, 256},
     client_id \in {1, 65536}, protocol_version \in {0, 1, 2, 256}}

\* bytes cut off the end of a built packet before it is parsed
PacketCuts == {1, 5}

InitPacket ==
  /\ SessInit
  /\ ThreadsIdle
  /\ SdIdle
  /\ ready = <<>>
  /\ timers = {}
  /\ stores = <<>>
  /\ notified = <<>>
  /\ owed = <<>>
  /\ last_ttl = <<>>
  /\ \E given \in Packets \cup OtherPackets :
        wire = [given |-> given, built |-> NoEntry, cut |-> 0, parsed |-> NoEntry]

\* buf = header.build()
PacketBuild ==
  /\ wire.built = NoEntry
  /\ WireCommit([wire EXCEPT !.built = SOMEIPHeader_build(wire.given)])

\* the end of the datagram is lost
PacketCut(n) ==
  /\ wire.built # NoEntry
  /\ wire.built.raised = None
  /\ wire.cut = 0
  /\ wire.parsed = NoEntry
  /\ WireCommit([wire EXCEPT !.cut = n,
                             !.built = Ok(Slice(wire.built.value, 0, Len(wire.built.value) - n))])

\* SOMEIPHeader.parse(buf)
PacketParse ==
  /\ wire.built # NoEntry
  /\ wire.built.raised = None
  /\ wire.parsed = NoEntry
  /\ WireCommit([wire EXCEPT !.parsed = SOMEIPHeader_parse(wire.built.value)])

NextPacket ==
  \/ PacketBuild
  \/ \E n \in PacketCuts : PacketCut(n)
  \/ PacketParse

SpecPacket == InitPacket /\ [][NextPacket]_vars

(***************************************************************************)
(* Session storage: properties                                             *)
(***************************************************************************)

\* C4: check_received returns true iff a record for (peer, multicast) exists,
\* the new flag is true and the recorded flag is false or the recorded session
\* id is > 0 and >= the new one; the first call for a key returns false; the
\* record of the key becomes (flag, session_id); no other key's record changes.
C4_CheckReceived ==
  cr # NoEntry =>
    LET old == cr.before[cr.key]
    IN /\ cr.ret <=> /\ old # NoEntry
                     /\ cr.flag
                     /\ (~old.flag \/ (old.session_id > 0 /\ old.session_id >= cr.session_id))
       /\ (old = NoEntry => ~cr.ret)
       /\ incoming[cr.key] = [flag |-> cr.flag, session_id |-> cr.session_id]
       /\ \A k \in IncomingKeys \ {cr.key} : incoming[k] = cr.before[k]

\* a reboot reported for an equal session id with both reboot flags set,
\* while another key holds a record of its own
C4_Witness ==
  /\ cr # NoEntry
  /\ cr.ret
  /\ cr.before[cr.key] # NoEntry
  /\ cr.before[cr.key].flag
  /\ cr.before[cr.key].session_id = cr.session_id
  /\ \E k \in IncomingKeys \ {cr.key} : incoming[k] # NoEntry

\* the n-th element (n >= 1) of the sequence (true,1), ..., (true,0xFFFF),
\* (false,1), ..., (false,0xFFFF), (false,1), ...
OutgoingSeq(n) ==
  IF n <= 65535
    THEN [flag |-> TRUE, session_id |-> n]
    ELSE [flag |-> FALSE, session_id |-> ((n - 1) % 65535) + 1]

\* C5: per remote (None included) the successive results of assign_outgoing on
\* a fresh storage are (true,1), ..., (true,0xFFFF), (false,1), ..., the id
\* stays in 1..0xFFFF, the flag is true exactly until the first wrap, and a
\* call for one remote does not advance the sequence of another.
C5_OutgoingSequence ==
  \A r \in Remotes :
    /\ ao_count[r] = 0 => outgoing[r] = NoEntry /\ ao_last[r] = NoEntry
    /\ ao_count[r] > 0 =>
         /\ ao_last[r] = OutgoingSeq(ao_count[r])
         /\ ao_last[r].session_id \in 1..65535
         /\ ao_last[r].flag <=> ao_count[r] <= 65535
         /\ outgoing[r] = OutgoingSeq(ao_count[r] + 1)

\* the default destination has just wrapped for the second time while the
\* other remote has been served once
C5_Witness ==
  /\ ao_count[None] = 2 * 65535 + 1
  /\ ao_last[None] = [flag |-> FALSE, session_id |-> 1]
  /\ ao_count["p1"] = 1
  /\ ao_last["p1"] = [flag |-> TRUE, session_id |-> 1]

\* number of times the pair rec has been handed to a caller for remote r:
\* read under the lock by a call still running, or already returned
Handed(r, rec) ==
  Cardinality({t \in Threads : tpc[t] \in {"write", "release", "return"}
                               /\ targ[t] = r /\ tloc[t] = rec})
  + Cardinality({ti \in Threads \X (1..(MaxThreadCalls + 1)) :
                   /\ ti[2] <= Len(tres[ti[1]])
                   /\ tres[ti[1]][ti[2]] = [remote |-> r, ret |-> rec]})

\* number of pairs handed out for remote r
NumHanded(r) ==
  Cardinality({t \in Threads : tpc[t] \in {"write", "release", "return"} /\ targ[t] = r})
  + Cardinality({ti \in Threads \X (1..(MaxThreadCalls + 1)) :
                   /\ ti[2] <= Len(tres[ti[1]])
                   /\ tres[ti[1]][ti[2]].remote = r})

\* C6: concurrent assign_outgoing calls for one remote are serialised: the n
\* pairs handed out are exactly the first n elements of the remote's sequence
\* (continuing after the calls made before), each handed to exactly one caller.
C6_Serialised ==
  \A r \in Remotes :
    \A i \in 1..NumHanded(r) : Handed(r, OutgoingSeq(base + i)) = 1

\* three threads have all been served for the default destination across the
\* 0xFFFF -> 1 wrap
C6_Witness ==
  /\ base > 0
  /\ \A t \in Threads : Len(tres[t]) = 1 /\ tres[t][1].remote = None
  /\ \E t \in Threads : tres[t][1].ret = [flag |-> FALSE, session_id |-> 1]

(***************************************************************************)
(* TimedStore: properties                                                  *)
(***************************************************************************)

\* number of pending (not cancelled, not fired) expiry timers of a pair:
\* handles still waiting for their time and handles come due but not yet run
PendingTimers(p) ==
  LET cb == expired_cb("user", p[1], p[2])
  IN Cardinality({t \in timers : t.h.cb = cb})
     + Cardinality({i \in DOMAIN ready :
                      ready[i].fn = "timer_handle" /\ ready[i].h.cb = cb})

\* number of expire callbacks of a pair scheduled with call_soon and not yet run
PendingExpire(p) ==
  Cardinality({i \in DOMAIN ready :
                 /\ ready[i].fn = "bound"
                 /\ ready[i].entry = p[2]
                 /\ ready[i].address = p[1]})

\* the handle stored with a stored pair
StoredHandle(p) ==
  LET s == stores["user"]
      b == bucket_index(s, p[1])
  IN s[b].items[item_index(s[b].items, p[2])].handle

\* C3: in every reachable state of a TimedStore each stored (peer, key) has
\* exactly one pending expiry timer, or none if it was last refreshed with
\* TTL_FOREVER; no pending timer exists for a pair that is not stored; every
\* entry that leaves the store has its expire callback delivered exactly once:
\* the deliveries still owed are exactly the callbacks waiting in the loop.
C3_TimedStoreTimers ==
  \A p \in StorePairs :
    /\ is_stored(stores["user"], p[1], p[2]) =>
         IF last_ttl[p] = TTL_FOREVER
           THEN PendingTimers(p) = 0 /\ StoredHandle(p) = NoEntry
           ELSE /\ PendingTimers(p) = 1
                /\ StoredHandle(p) # NoEntry
                /\ StoredHandle(p).cb = expired_cb("user", p[1], p[2])
                /\ \/ \E t \in timers : t.h = StoredHandle(p)
                   \/ \E i \in DOMAIN ready : ready[i] = DueEntry(StoredHandle(p))
    /\ ~is_stored(stores["user"], p[1], p[2]) => PendingTimers(p) = 0
    /\ owed[p] = PendingExpire(p)

\* an expired entry has just had its expire callback delivered and nothing
\* more is owed for it, while a second entry is kept forever without a timer
\* and a third waits for its single timer
C3_Witness ==
  /\ notified = <<Notice("on_expire", "p1", [name |-> "k1"])>>
  /\ ~is_stored(stores["user"], "p1", [name |-> "k1"])
  /\ owed[<<"p1", [name |-> "k1"]>>] = 0
  /\ is_stored(stores["user"], "p1", [name |-> "k2"])
  /\ last_ttl[<<"p1", [name |-> "k2"]>>] = TTL_FOREVER
  /\ is_stored(stores["user"], "p2", [name |-> "k1"])
  /\ PendingTimers(<<"p2", [name |-> "k1"]>>) = 1

\* what a call refresh(ttl, address, entry, on_new, on_expire) has done by the
\* time it returns or raises
RefreshDone(ttl, address, entry, raises) ==
  LET p == <<address, entry>>
      was == is_stored(stores["user"], address, entry)
  IN /\ notified' = IF was THEN <<>> ELSE <<Notice("on_new", address, entry)>>
     /\ (~was /\ raises) => ~is_stored(stores["user"], address, entry)'
     /\ (was \/ ~raises) =>
          /\ is_stored(stores["user"], address, entry)'
          /\ IF ttl = TTL_FOREVER
               THEN PendingTimers(p)' = 0 /\ StoredHandle(p)' = NoEntry
               ELSE /\ PendingTimers(p)' = 1
                    /\ \E t \in timers' : t.h = StoredHandle(p)' /\ t.left = ttl

\* the key stored last for address, NoEntry if there is none
LastKey(store, address) ==
  LET b == bucket_index(store, address)
  IN IF b = 0 \/ store[b].items = <<>>
       THEN NoEntry
       ELSE Identity(store[b].items[Len(store[b].items)].key)

\* what every step refresh(ttl, address, entry, ...) shows, whatever it finds:
\* either on_new was called or the entry is the last one stored for its
\* address, with ttl, and no timer but the entry's own is touched (told
\* first, to tell the refresh steps from the others without working out each
\* call)
RefreshShows(ttl, address, entry) ==
  /\ \/ notified' = <<Notice("on_new", address, entry)>>
     \/ /\ last_ttl'[<<address, entry>>] = ttl
        /\ LastKey(stores'["user"], address) = Identity(entry)
  /\ \A t \in timers' : t \in timers \/ t.h.cb = expired_cb("user", address, entry)

\* a step of the loop that takes pair p out of the store runs the timer
\* that the latest refresh of p scheduled
RemovedByLatestTimer(p) ==
  /\ is_stored(stores["user"], p[1], p[2])
  /\ ~is_stored(stores["user"], p[1], p[2])'
  /\ (StoreRunCallback \/ StoreTimerFire \/ StoreTick)
  => /\ last_ttl[p] # TTL_FOREVER
     /\ ready # <<>>
     /\ Head(ready) = DueEntry(StoredHandle(p))

\* C28: refresh(ttl, peer, key, on_new, on_expire) invokes on_new(key, peer)
\* before it returns if and only if (peer, key) was not stored when it was
\* called; a refresh of a stored key cancels the previous timer, so that the
\* one pending timer of the entry is the new one, ttl away, and the loop
\* removes an entry only by running the timer of its latest refresh; an
\* entry refreshed with TTL_FOREVER has no timer and no loop step removes it.
\* (A refresh adds nothing to the ready queue, so the steps that lengthen it
\* are passed over; an on_new that would raise makes no difference to a step
\* that calls nothing, so that step is looked at once.)
C28_Refresh ==
  [][/\ Len(ready') <= Len(ready) =>
          \A p \in StorePairs, ttl \in StoreTtls, raises \in BOOLEAN :
            /\ raises => notified' # <<>>
            /\ RefreshShows(ttl, p[1], p[2])
            /\ UserRefresh(ttl, p[1], p[2], raises)
            => RefreshDone(ttl, p[1], p[2], raises)
     /\ \A p \in StorePairs : RemovedByLatestTimer(p)]_vars

\* a second has passed since two keys of one peer were stored for two seconds
\* and the first of them has been refreshed for two more: it is stored behind
\* the other, no on_new call was made, and its timer is two seconds away
\* while the other's is one second away
C28_Witness ==
  LET s == stores["user"]
      k1 == <<"p1", [name |-> "k1"]>>
      k2 == <<"p1", [name |-> "k2"]>>
  IN /\ notified = <<>>
     /\ Len(s) = 1
     /\ Len(s[1].items) = 2
     /\ s[1].items[1].key = k2[2]
     /\ s[1].items[2].key = k1[2]
     /\ last_ttl[k1] = 2
     /\ last_ttl[k2] = 2
     /\ \E t \in timers : t.h = StoredHandle(k1) /\ t.left = 2
     /\ \E t \in timers : t.h = StoredHandle(k2) /\ t.left = 1

(***************************************************************************)
(* Reading the trace                                                       *)
(***************************************************************************)

\* the n-th smallest element of a set of trace positions
Nth(S, n) == CHOOSE x \in S : Cardinality({y \in S : y < x}) = n - 1

\* the seconds that pass between trace positions i and k
Ticks(i, k) == Cardinality({t \in i..k : trace[t].ev = "tick"})

\* the positions at which (address, key) left store sid
RemovedAt(sid, address, key) ==
  {k \in DOMAIN trace :
     /\ trace[k].ev = "removed"
     /\ trace[k].store = sid
     /\ trace[k].address = address
     /\ Identity(trace[k].entry) = key}

\* the position of the message_received call for datagram n, 0 if it has not
\* been handled as an SD message
ReceivedAt(n) ==
  FirstIndex({m \in DOMAIN trace : trace[m].ev = "message_received" /\ trace[m].dg = n})

\* whether datagram n made check_received report a reboot
Rebooted(n) == ReceivedAt(n) # 0 /\ trace[ReceivedAt(n)].reboot

(***************************************************************************)
(* Discover: properties                                                    *)
(***************************************************************************)

\* the (filter, listener) registrations made before trace position k
RegsAt(k) ==
  {[filter |-> trace[j].reg.filter, listener |-> trace[j].listener] :
     j \in {j \in 1..(k - 1) : trace[j].ev = "watch_service"}}

\* the listener calls ev made to registration r by the fan-out call at
\* trace position j
FanOut(ev, r, j) ==
  {k \in DOMAIN trace :
     /\ trace[k].ev = ev
     /\ trace[k].cause = j
     /\ trace[k].listener = r.listener
     /\ trace[k].reg = [filter |-> r.filter]}

\* the _notify_service_offered calls made by the handle_offer call at i
OfferedCalls(i) ==
  {j \in DOMAIN trace : trace[j].ev = "_notify_service_offered" /\ trace[j].cause = i}

\* the _notify_service_stopped calls for service from address
StoppedCalls(address, service) ==
  {j \in DOMAIN trace :
     /\ trace[j].ev = "_notify_service_stopped"
     /\ trace[j].service = service
     /\ trace[j].source = address}

\* the _notify_service_stopped calls for service from address waiting in the
\* ready queue
PendingStopped(address, service) ==
  Cardinality({i \in DOMAIN ready :
                 /\ ready[i].fn = "bound"
                 /\ ready[i].cb.fn = "_notify_service_stopped"
                 /\ ready[i].address = address
                 /\ ready[i].entry = service})

\* the handle_offer calls before k that offered service from address with a
\* ttl > 0 while it was watched
OffersBefore(k, address, service) ==
  {i \in 1..(k - 1) :
     /\ trace[i].ev = "handle_offer"
     /\ trace[i].addr = address
     /\ from_offer_entry(trace[i].entry) = service
     /\ trace[i].entry.ttl > 0
     /\ trace[i].watching}

\* the (address, service) pairs that were ever stored in found_services
FoundPairs ==
  {<<trace[i].addr, from_offer_entry(trace[i].entry)>> :
     i \in {i \in DOMAIN trace : trace[i].ev = "handle_offer"}}

\* C10 (first offer, repeated offer): a handle_offer call for an entry with
\* ttl > 0 makes, for every registration whose filter matches the entry,
\* exactly one service_offered(service, p) call if (p, service) was not stored
\* and none if it was
C10_OfferedOnce ==
  \A i \in DOMAIN trace :
    (trace[i].ev = "handle_offer" /\ trace[i].entry.ttl > 0) =>
      \A r \in RegsAt(i) :
        matches_offer(r.filter, trace[i].entry) =>
          LET calls == UNION {FanOut("service_offered", r, j) : j \in OfferedCalls(i)}
          IN /\ Cardinality(calls) = IF trace[i].stored THEN 0 ELSE 1
             /\ \A k \in calls :
                  /\ trace[k].service = from_offer_entry(trace[i].entry)
                  /\ trace[k].source = trace[i].addr

\* C10 (expiry): found_services drops (p, service) by expiry exactly T
\* seconds after the last offer of it, T being that offer's ttl; every
\* departure of (p, service) is answered in the same second by one
\* _notify_service_stopped call, which calls service_stopped(service, p)
\* exactly once for every registration whose filter matches
C10_StoppedOnce ==
  /\ \A k \in DOMAIN trace :
       (trace[k].ev = "removed" /\ trace[k].store = "found" /\ trace[k].by = "_expired") =>
         LET offers == OffersBefore(k, trace[k].address, trace[k].entry)
         IN /\ offers # {}
            /\ Ticks(Nth(offers, Cardinality(offers)), k)
                 = trace[Nth(offers, Cardinality(offers))].entry.ttl
  /\ \A p \in FoundPairs :
       LET R == RemovedAt("found", p[1], p[2])
           N == StoppedCalls(p[1], p[2])
       IN /\ Cardinality(R) = Cardinality(N) + PendingStopped(p[1], p[2])
          /\ \A n \in 1..Cardinality(N) :
               /\ Nth(R, n) < Nth(N, n)
               /\ Ticks(Nth(R, n), Nth(N, n)) = 0
               /\ \A r \in RegsAt(Nth(N, n)) :
                    Cardinality(FanOut("service_stopped", r, Nth(N, n)))
                      = IF matches_service(r.filter, p[2]) THEN 1 ELSE 0

\* C10: a watched offer with ttl T > 0 is reported once to each listener of a
\* matching filter, repeated offers are not reported again and restart the
\* expiry, and service_stopped is reported once, T seconds after the last offer
C10_OfferLifetime == C10_OfferedOnce /\ C10_StoppedOnce

\* C10 witness: a service was offered and reported, offered again while
\* stored, then expired and was reported stopped to a listener
C10_Witness ==
  \E i \in DOMAIN trace :
    /\ trace[i].ev = "handle_offer" /\ trace[i].watching /\ ~trace[i].stored
    /\ trace[i].entry.ttl > 0
    /\ \E j \in i..Len(trace) :
         /\ trace[j].ev = "handle_offer" /\ trace[j].stored
         /\ trace[j].entry = trace[i].entry
         /\ Ticks(i, j) > 0
         /\ \E k \in j..Len(trace) :
              /\ trace[k].ev = "removed" /\ trace[k].store = "found"
              /\ trace[k].by = "_expired"
              /\ trace[k].entry = from_offer_entry(trace[i].entry)
              /\ \E m \in k..Len(trace) :
                   trace[m].ev = "service_stopped" /\ trace[m].service = trace[k].entry

\* C2: when a datagram that makes check_received report a reboot of peer p
\* also carries offers, a listener that was told of a service stored for p
\* is called service_stopped for it, after the datagram is received, before
\* it is called service_offered for an offer of that datagram
C2_StoppedBeforeOffered ==
  \A k \in DOMAIN trace :
    (trace[k].ev = "service_offered" /\ trace[k].cause > 0 /\ Rebooted(trace[k].dg)) =>
      LET m == ReceivedAt(trace[k].dg)
      IN \A service \in trace[m].known :
           (\E o \in 1..(m - 1) :
              /\ trace[o].ev = "service_offered"
              /\ trace[o].listener = trace[k].listener
              /\ trace[o].service = service
              /\ trace[o].source = trace[m].addr)
           => \E t \in (m + 1)..(k - 1) :
                /\ trace[t].ev = "service_stopped"
                /\ trace[t].listener = trace[k].listener
                /\ trace[t].service = service
                /\ trace[t].source = trace[m].addr

(***************************************************************************)
(* Protocol and Announce: properties                                       *)
(***************************************************************************)

\* C1: when check_received reports a reboot for a datagram, the
\* reboot_detected handlers of Subscriber, Discover and Announce have all run
\* before handle_offer, handle_findservice or handle_subscribe is called for
\* an entry of that datagram
C1_RebootBeforeDispatch ==
  \A k \in DOMAIN trace :
    (/\ trace[k].ev \in {"handle_offer", "handle_findservice", "handle_subscribe"}
     /\ Rebooted(trace[k].dg)) =>
      \A who \in {"subscriber", "discovery", "announcer"} :
        \E j \in 1..(k - 1) :
          /\ trace[j].ev = "reboot_detected"
          /\ trace[j].who = who
          /\ trace[j].dg = trace[k].dg

\* the announced instances that ServiceAnnouncer.handle_subscribe, called at
\* trace position h, found with a task and matching the entry
MatchingAt(h) ==
  {inst \in {trace[h].announced[i] : i \in DOMAIN trace[h].announced} :
     /\ inst \in trace[h].with_task
     /\ matches_subscribe(instances[inst].service, trace[h].entry)}

\* the ServiceInstance.handle_subscribe calls of instance inst that went past
\* the two early returns, made by the ServiceAnnouncer.handle_subscribe call
\* at h
InstanceCalls(h, inst) ==
  {j \in DOMAIN trace :
     /\ trace[j].ev = "instance_handle_subscribe"
     /\ trace[j].cause = h
     /\ trace[j].instance = inst}

\* the calls of kind ev made by the call at trace position j
CallsBy(ev, j) == {k \in DOMAIN trace : trace[k].ev = ev /\ trace[k].cause = j}

\* whether ack acknowledges the Subscribe entry with the given ttl: same
\* service id, instance id, major version, counter and eventgroup id
Acknowledges(ack, entry, ttl) ==
  /\ ack.sd_type = "SubscribeAck"
  /\ ack.ttl = ttl
  /\ ack.service_id = entry.service_id
  /\ ack.instance_id = entry.instance_id
  /\ ack.major_version = entry.major_version
  /\ eventgroup_counter(ack) = eventgroup_counter(entry)
  /\ eventgroup_id(ack) = eventgroup_id(entry)

\* the ServiceInstance.handle_subscribe calls before k that left the
\* subscription key of address stored in the subscriptions of inst
SubscribesBefore(k, inst, address, key) ==
  {j \in 1..(k - 1) :
     /\ trace[j].ev = "instance_handle_subscribe"
     /\ trace[j].instance = inst
     /\ trace[j].addr = address
     /\ Identity(from_subscribe_entry(trace[j].entry)) = key
     /\ trace[j].entry.ttl > 0
     /\ \A c \in CallsBy("client_subscribed", j) : ~trace[c].nak}

\* the client_unsubscribed calls of inst for the subscription key of address
UnsubscribedCalls(inst, address, key) ==
  {k \in DOMAIN trace :
     /\ trace[k].ev = "client_unsubscribed"
     /\ trace[k].instance = inst
     /\ trace[k].source = address
     /\ Identity(trace[k].subscription) = key}

\* the client_unsubscribed calls for it waiting in the ready queue
PendingUnsubscribed(inst, address, key) ==
  Cardinality({i \in DOMAIN ready :
                 /\ ready[i].fn = "bound"
                 /\ ready[i].cb.fn = "client_unsubscribed"
                 /\ ready[i].cb.instance = inst
                 /\ ready[i].address = address
                 /\ Identity(ready[i].entry) = key})

\* the (instance, address, subscription key) triples that were ever handled
SubscriptionKeys ==
  {<<trace[j].instance, trace[j].addr, Identity(from_subscribe_entry(trace[j].entry))>> :
     j \in {j \in DOMAIN trace : trace[j].ev = "instance_handle_subscribe"}}

\* C7 (accept): a Subscribe with ttl T > 0 from p that matches an instance
\* with a task, is not stored there and is accepted by the listener makes,
\* for that instance, exactly one client_subscribed(sub, p) call and queues
\* exactly one SubscribeAck to p with ttl T and the ids, counter and
\* eventgroup id of the entry
C7_Accepted ==
  \A h \in DOMAIN trace :
    (trace[h].ev = "handle_subscribe" /\ trace[h].entry.ttl > 0) =>
      \A inst \in MatchingAt(h) :
        /\ Cardinality(InstanceCalls(h, inst)) = 1
        /\ \A j \in InstanceCalls(h, inst) :
             ~trace[j].stored =>
               /\ Cardinality(CallsBy("client_subscribed", j)) = 1
               /\ \A c \in CallsBy("client_subscribed", j) :
                    /\ trace[c].instance = inst
                    /\ trace[c].subscription = from_subscribe_entry(trace[h].entry)
                    /\ trace[c].source = trace[h].addr
                    /\ ~trace[c].nak =>
                         /\ Cardinality(CallsBy("queue_send", j)) = 1
                         /\ \A q \in CallsBy("queue_send", j) :
                              /\ trace[q].remote = trace[h].addr
                              /\ Acknowledges(trace[q].entry, trace[h].entry,
                                              trace[h].entry.ttl)

\* C7 (expiry): a subscription leaves the store by expiry exactly T seconds
\* after the last Subscribe that stored or refreshed it, T being that
\* entry's ttl, and is then not stored; every departure of a subscription is
\* answered in the same second by exactly one client_unsubscribed(sub, p)
C7_Expired ==
  /\ \A k \in DOMAIN trace :
       (trace[k].ev = "removed" /\ trace[k].store # "found" /\ trace[k].by = "_expired") =>
         LET subs == SubscribesBefore(k, trace[k].store, trace[k].address,
                                      Identity(trace[k].entry))
         IN /\ subs # {}
            /\ Ticks(Nth(subs, Cardinality(subs)), k)
                 = trace[Nth(subs, Cardinality(subs))].entry.ttl
            /\ k = Len(trace) =>
                 ~is_stored(stores[trace[k].store], trace[k].address, trace[k].entry)
  /\ \A s \in SubscriptionKeys :
       LET R == RemovedAt(s[1], s[2], s[3])
           N == UnsubscribedCalls(s[1], s[2], s[3])
       IN /\ Cardinality(R) = Cardinality(N) + PendingUnsubscribed(s[1], s[2], s[3])
          /\ \A n \in 1..Cardinality(N) :
               /\ Nth(R, n) < Nth(N, n)
               /\ Ticks(Nth(R, n), Nth(N, n)) = 0

\* C7: an accepted new Subscribe with ttl T is reported once by
\* client_subscribed and acknowledged once with ttl T and the same ids,
\* counter and eventgroup id; without a refresh the subscription is removed
\* and client_unsubscribed called once T seconds later
C7_SubscribeLifetime == C7_Accepted /\ C7_Expired

\* C7 witness: a subscription with ttl 2 was accepted and acknowledged, then
\* expired two seconds later and client_unsubscribed was called
C7_Witness ==
  \E c \in DOMAIN trace :
    /\ trace[c].ev = "client_subscribed" /\ ~trace[c].nak
    /\ trace[c].subscription.ttl = 2
    /\ CallsBy("queue_send", trace[c].cause) # {}
    /\ \E k \in c..Len(trace) :
         /\ trace[k].ev = "removed" /\ trace[k].by = "_expired"
         /\ trace[k].store = trace[c].instance
         /\ Ticks(c, k) = 2
         /\ \E u \in k..Len(trace) :
              /\ trace[u].ev = "client_unsubscribed"
              /\ trace[u].instance = trace[c].instance

\* C8: when client_subscribed raises NakSubscription for a new Subscribe with
\* ttl > 0 from p, the instance queues exactly one entry to p, a SubscribeAck
\* with ttl 0 and the ids, counter and eventgroup id of the Subscribe; the
\* subscription is not stored unless a later Subscribe stores it; and
\* client_unsubscribed calls never outnumber the accepted subscriptions
C8_Refused ==
  /\ \A c \in DOMAIN trace :
       (trace[c].ev = "client_subscribed" /\ trace[c].nak) =>
         LET j == trace[c].cause
             key == Identity(trace[c].subscription)
         IN /\ trace[j].ev = "instance_handle_subscribe"
            /\ trace[j].entry.ttl > 0
            /\ Cardinality(CallsBy("queue_send", j)) = 1
            /\ \A q \in CallsBy("queue_send", j) :
                 /\ trace[q].remote = trace[j].addr
                 /\ Acknowledges(trace[q].entry, trace[j].entry, 0)
            /\ (\A l \in (j + 1)..Len(trace) :
                  ~(/\ trace[l].ev = "instance_handle_subscribe"
                    /\ trace[l].instance = trace[j].instance
                    /\ trace[l].addr = trace[j].addr
                    /\ Identity(from_subscribe_entry(trace[l].entry)) = key))
               => ~is_stored(stores[trace[j].instance], trace[j].addr, trace[c].subscription)
  /\ \A s \in SubscriptionKeys :
       Cardinality(UnsubscribedCalls(s[1], s[2], s[3]))
         <= Cardinality({c \in DOMAIN trace :
                           /\ trace[c].ev = "client_subscribed"
                           /\ ~trace[c].nak
                           /\ trace[c].instance = s[1]
                           /\ trace[c].source = s[2]
                           /\ Identity(trace[c].subscription) = s[3]})

\* C8 witness: a listener refused a subscription and the NACK was queued
C8_Witness ==
  \E c \in DOMAIN trace :
    /\ trace[c].ev = "client_subscribed" /\ trace[c].nak
    /\ \E q \in CallsBy("queue_send", trace[c].cause) : trace[q].entry.ttl = 0

\* the entries queued by the ServiceAnnouncer.handle_subscribe call at h,
\* by itself or by the instances it called
QueuedBy(h) ==
  {q \in DOMAIN trace :
     /\ trace[q].ev = "queue_send"
     /\ trace[q].cause > 0
     /\ \/ trace[q].cause = h
        \/ /\ trace[trace[q].cause].ev = "instance_handle_subscribe"
           /\ trace[trace[q].cause].cause = h}

\* C9: for every Subscribe handled by ServiceAnnouncer.handle_subscribe: if
\* no announced instance with a task (started and not stopped) matches,
\* exactly one NACK built from the entry is queued to the sender; if k >= 1
\* match and ttl > 0, exactly k SubscribeAck entries (ACK or NACK) are
\* queued to the sender, one by each matching instance
C9_AnswersPerSubscribe ==
  \A h \in DOMAIN trace :
    trace[h].ev = "handle_subscribe" =>
      /\ MatchingAt(h) = {} =>
           /\ Cardinality(QueuedBy(h)) = 1
           /\ \A q \in QueuedBy(h) :
                /\ trace[q].cause = h
                /\ trace[q].remote = trace[h].addr
                /\ Acknowledges(trace[q].entry, trace[h].entry, 0)
      /\ (MatchingAt(h) # {} /\ trace[h].entry.ttl > 0) =>
           /\ Cardinality(QueuedBy(h)) = Cardinality(MatchingAt(h))
           /\ \A inst \in MatchingAt(h) :
                \A j \in InstanceCalls(h, inst) :
                  /\ Cardinality(CallsBy("queue_send", j)) = 1
                  /\ \A q \in CallsBy("queue_send", j) :
                       /\ trace[q].remote = trace[h].addr
                       /\ trace[q].entry.sd_type = "SubscribeAck"
                       /\ trace[q].entry.ttl \in {0, trace[h].entry.ttl}

\* C9 witness: one Subscribe matched no instance with a task although
\* instances were started, and one Subscribe matched two and was answered twice
C9_Witness ==
  /\ \E h \in DOMAIN trace :
       /\ trace[h].ev = "handle_subscribe"
       /\ trace[h].with_task # {}
       /\ MatchingAt(h) = {}
       /\ Cardinality(QueuedBy(h)) = 1
  /\ \E h \in DOMAIN trace :
       /\ trace[h].ev = "handle_subscribe"
       /\ Cardinality(MatchingAt(h)) = 2
       /\ trace[h].entry.ttl > 0
       /\ Cardinality(QueuedBy(h)) = 2

\* the ServiceInstance.handle_subscribe calls that were given a StopSubscribe
\* and went on to TimedStore.stop
StopCalls ==
  {j \in DOMAIN trace : trace[j].ev = "instance_handle_subscribe" /\ trace[j].entry.ttl = 0}

\* whether the happening at k is about the subscription that the
\* ServiceInstance.handle_subscribe call at j was given
SameSubscription(k, j) ==
  /\ trace[k].ev = "instance_handle_subscribe"
  /\ trace[k].instance = trace[j].instance
  /\ trace[k].addr = trace[j].addr
  /\ Identity(from_subscribe_entry(trace[k].entry)) = Identity(from_subscribe_entry(trace[j].entry))

\* TimedStore.stop as called for a StopSubscribe: a stored subscription is
\* removed and client_unsubscribed called for it once, inside the call; for
\* one that is not stored nothing is removed and nothing called
StopActs ==
  \A j \in StopCalls :
    LET R == CallsBy("removed", j)
        U == CallsBy("client_unsubscribed", j)
        key == Identity(from_subscribe_entry(trace[j].entry))
    IN IF trace[j].stored
         THEN /\ Cardinality(R) = 1
              /\ Cardinality(U) = 1
              /\ \A r \in R, u \in U :
                   /\ r < u
                   /\ trace[r].by = "stop"
                   /\ trace[r].store = trace[j].instance
                   /\ trace[r].address = trace[j].addr
                   /\ Identity(trace[r].entry) = key
                   /\ trace[u].instance = trace[j].instance
                   /\ trace[u].source = trace[j].addr
                   /\ Identity(trace[u].subscription) = key
         ELSE R = {} /\ U = {}

\* the expiry timers of the subscriptions that have not run yet
ExpiryHandles ==
  {h \in {t.h : t \in timers}
          \cup {ready[i].h : i \in {i \in DOMAIN ready : ready[i].fn = "timer_handle"}} :
     h.cb.fn = "_expired" /\ h.cb.store # "found"}

\* every expiry timer that has not run is the timer of a stored subscription:
\* the timer of a subscription that was stopped is cancelled
StoppedTimerCancelled ==
  \A h \in ExpiryHandles :
    LET st == stores[h.cb.store]
        b == bucket_index(st, h.cb.address)
    IN /\ is_stored(st, h.cb.address, h.cb.entry)
       /\ st[b].items[item_index(st[b].items, h.cb.entry)].handle = h

\* the pairs of a StopSubscribe and a following Subscribe with ttl > 0 that
\* one datagram carried, for a subscription that was stored, as handled by
\* one instance
Resubscribes ==
  {p \in StopCalls \X DOMAIN trace :
     /\ trace[p[1]].stored
     /\ p[1] < p[2]
     /\ SameSubscription(p[2], p[1])
     /\ trace[p[2]].entry.ttl > 0
     /\ trace[p[1]].dg # 0
     /\ trace[p[2]].dg = trace[p[1]].dg}

\* client_unsubscribed, then client_subscribed
UnsubscribedThenSubscribed(p) ==
  /\ Cardinality(CallsBy("client_unsubscribed", p[1])) = 1
  /\ Cardinality(CallsBy("client_subscribed", p[2])) = 1
  /\ \A u \in CallsBy("client_unsubscribed", p[1]), c \in CallsBy("client_subscribed", p[2]) :
       u < c

\* the subscription handled at j is stored, unless it left the store later
StoredSince(j) ==
  (\A k \in (j + 1)..Len(trace) :
     ~(/\ trace[k].ev = "removed"
       /\ trace[k].store = trace[j].instance
       /\ trace[k].address = trace[j].addr
       /\ Identity(trace[k].entry) = Identity(from_subscribe_entry(trace[j].entry))))
  => is_stored(stores[trace[j].instance], trace[j].addr, from_subscribe_entry(trace[j].entry))

\* the subscription handled at j is not stored, unless it was handled again
NotStoredSince(j) ==
  (\A k \in (j + 1)..Len(trace) : ~SameSubscription(k, j))
  => ~is_stored(stores[trace[j].instance], trace[j].addr, from_subscribe_entry(trace[j].entry))

\* whether the listener refused the Subscribe handled at j
Refused(j) == \E c \in CallsBy("client_subscribed", j) : trace[c].nak

\* C29 (amended): TimedStore.stop on a stored entry removes it, cancels its
\* timer and has called the stored expire callback when it returns; stop on
\* a key that is not stored calls nothing and removes nothing; a
\* StopSubscribe followed by a Subscribe for the same stored subscription in
\* one datagram yields client_unsubscribed and then client_subscribed, and
\* leaves the subscription stored if client_subscribed accepts it; if it
\* raises NakSubscription the subscription is left out of the store
C29_StopThenSubscribe ==
  /\ StopActs
  /\ StoppedTimerCancelled
  /\ \A p \in Resubscribes :
       /\ UnsubscribedThenSubscribed(p)
       /\ IF Refused(p[2]) THEN NotStoredSince(p[2]) ELSE StoredSince(p[2])

\* C29 witness: a stored subscription was stopped and subscribed again by one
\* datagram, client_unsubscribed and client_subscribed were called in this
\* order, and the subscription is stored with its timer two seconds away
C29_Witness ==
  \E p \in Resubscribes :
    /\ UnsubscribedThenSubscribed(p)
    /\ ~Refused(p[2])
    /\ is_stored(stores[trace[p[2]].instance], trace[p[2]].addr,
                 from_subscribe_entry(trace[p[2]].entry))
    /\ \E t \in timers : t.h \in ExpiryHandles /\ t.left = 2

\* C29 as stated: the StopSubscribe and Subscribe of one datagram always
\* leave the subscription stored
C29_AlwaysStored ==
  /\ StopActs
  /\ StoppedTimerCancelled
  /\ \A p \in Resubscribes :
       /\ UnsubscribedThenSubscribed(p)
       /\ StoredSince(p[2])

(***************************************************************************)
(* Find: properties                                                        *)
(***************************************************************************)

\* the positions of the happenings named ev
EventsOf(ev) == {k \in DOMAIN trace : trace[k].ev = ev}

\* the positions at which a datagram of entries of the given type was sent
SendsOf(sd_type) ==
  {k \in DOMAIN trace : trace[k].ev = "send" /\ trace[k].entries[1].sd_type = sd_type}

\* the positions at which the application started, or stopped, a sub-engine
CallsOf(ev, who) == {k \in DOMAIN trace : trace[k].ev = ev /\ trace[k].who = who}

\* a run in which one service is watched, then Discover is started once and
\* left alone, and nothing is received
QuietFind ==
  /\ Cardinality(CallsOf("start", "discovery")) = 1
  /\ CallsOf("stop", "discovery") = {}
  /\ EventsOf("datagram") = {}
  /\ Cardinality(EventsOf("watch_service")) = 1
  /\ \A k \in EventsOf("watch_service") : \A st \in CallsOf("start", "discovery") : k < st

\* in a quiet run the find loop sends one FindService datagram for the watched
\* service at each of the given times after start (in units of 10 ms), none
\* at any other time, and has ended once the last one is sent
FindSchedule(times) ==
  QuietFind =>
    LET st == CHOOSE k \in CallsOf("start", "discovery") : TRUE
        sends == SendsOf("FindService")
        n == Cardinality(sends)
    IN /\ n <= Len(times)
       /\ \A i \in 1..n :
            /\ Ticks(st, Nth(sends, i)) = times[i]
            /\ trace[Nth(sends, i)].remote = None
            /\ trace[Nth(sends, i)].entries =
                 <<create_find_entry(watched_services[1].filter, timings.FIND_TTL)>>
       /\ \A i \in 1..Len(times) : Ticks(st, Len(trace)) > times[i] => n >= i
       /\ (ready = <<>> /\ timers = {}) => n = Len(times)
       /\ n = Len(times) => task_of(World, discovery.task) = NoEntry

\* C11 as stated: with no initial delay, REPETITIONS_MAX = 3 and
\* REPETITIONS_BASE_DELAY = 0.01 s, a find loop for one watched service that is
\* never offered sends FindService at t = 0, 0.01, 0.02 and 0.04 s and ends
C11_FindTimesStated == FindSchedule(<<0, 1, 2, 4>>)

\* C11: with no initial delay, REPETITIONS_MAX = 3 and REPETITIONS_BASE_DELAY =
\* 0.01 s, a find loop for one watched service that is never offered sends
\* four FindService datagrams, at t = 0, 0.01, 0.03 and 0.07 s (each
\* repetition sleep doubles and the sleeps add up), and then ends
C11_FindTimes == FindSchedule(<<0, 1, 3, 7>>)

\* a quiet run in which the loop has sent its four datagrams and ended
C11_Witness ==
  /\ QuietFind
  /\ Cardinality(SendsOf("FindService")) = 4
  /\ Ticks(1, Len(trace)) = 7
  /\ task_of(World, discovery.task) = NoEntry

\* the watched filters that no service known at the build matches, in the
\* order of the watched_services map
Unmatched(b) ==
  SelectSeq(b.watched, LAMBDA f : ~\E known \in b.found : matches_service(f, known))

\* C12: each time the find loop builds its entries, it sends one datagram
\* holding exactly one FindService entry per watched filter that no service in
\* found_services matches, or nothing when every filter is matched, after
\* which the loop sends no more; FindService datagrams have no other origin
C12_FindEntries ==
  /\ \A m \in SendsOf("FindService") : trace[m].cause \in EventsOf("_build_entries")
  /\ \A k \in EventsOf("_build_entries") :
       LET b == trace[k]
           want == Unmatched(b)
           sent == {m \in SendsOf("FindService") : trace[m].cause = k}
       IN /\ (k = Len(trace) \/ (k + 1 = Len(trace) /\ trace[k + 1].cause = k)) =>
               /\ b.found = ts_entries(stores["found"])
               /\ b.watched = [i \in DOMAIN watched_services |-> watched_services[i].filter]
          /\ IF want = <<>>
               THEN /\ sent = {}
                    /\ \A m \in SendsOf("FindService") :
                         m > k => \E st \in CallsOf("start", "discovery") : k < st /\ st < m
               ELSE /\ sent = {k + 1}
                    /\ trace[k + 1].remote = None
                    /\ trace[k + 1].entries =
                         [i \in DOMAIN want |-> create_find_entry(want[i], timings.FIND_TTL)]

\* two filters are watched; after an offer the loop asks for the other filter
\* only, and after a second offer it builds nothing and stops sending
C12_Witness ==
  \E k \in EventsOf("_build_entries") :
    /\ Len(trace[k].watched) = 2
    /\ Unmatched(trace[k]) = <<>>
    /\ \E m \in SendsOf("FindService") :
         /\ m < k
         /\ Len(trace[m].entries) = 1
         /\ Len(trace[trace[m].cause].watched) = 2

(***************************************************************************)
(* Offer: properties                                                       *)
(***************************************************************************)

\* the elements of a sequence
Range(f) == {f[i] : i \in DOMAIN f}

\* the positions at which ServiceInstance.start was called for inst: by
\* ServiceAnnouncer.start, or by announce_service on a started announcer
StartsOf(inst) ==
  {k \in CallsOf("start", "announcer") : inst \in Range(trace[k].announced)}
  \cup {k \in EventsOf("announce_service") : trace[k].instance = inst /\ trace[k].started}

\* the positions at which ServiceInstance.stop was called for inst
StopsOf(inst) ==
  {k \in CallsOf("stop", "announcer") : inst \in Range(trace[k].announced)}

\* the first position after k in the set S, or the position after the end of
\* the trace
NextIn(S, k) ==
  IF \E x \in S : x > k THEN CHOOSE x \in S : x > k /\ \A y \in S : y > k => x <= y
                        ELSE Len(trace) + 1

\* the positions in a..b at which an OfferService entry of inst with the given
\* ttl was sent to the default destination
OffersSent(inst, ttl, a, b) ==
  {k \in SendsOf("OfferService") :
     /\ a <= k /\ k <= b
     /\ trace[k].remote = None
     /\ trace[k].entries = <<create_offer_entry(instances[inst].service, ttl)>>}

\* the time after start of the i-th offer of an offer task whose initial
\* delay was d
OfferTime(i, d) ==
  IF i <= timings.REPETITIONS_MAX + 1
    THEN d + (Pow2(i - 1) - 1) * timings.REPETITIONS_BASE_DELAY
    ELSE d + (Pow2(timings.REPETITIONS_MAX) - 1) * timings.REPETITIONS_BASE_DELAY
           + (i - timings.REPETITIONS_MAX - 1) * timings.CYCLIC_OFFER_DELAY

\* from start to stop an instance offers at d, then after each repetition
\* sleep, then every CYCLIC_OFFER_DELAY, never late, and at no other time
C13_Schedule ==
  \A inst \in DOMAIN instances : \A st \in StartsOf(inst) :
    LET sp == NextIn(StopsOf(inst), st)
        offers == OffersSent(inst, timings.ANNOUNCE_TTL, st, sp)
        n == Cardinality(offers)
        d == Ticks(st, Nth(offers, 1))
        now == Ticks(st, Len(trace))
    IN /\ OffersSent(inst, timings.ANNOUNCE_TTL, sp, NextIn(StartsOf(inst), sp)) = {}
       /\ n > 0 =>
            /\ timings.INITIAL_DELAY_MIN <= d /\ d <= timings.INITIAL_DELAY_MAX
            /\ \A i \in 1..n : Ticks(st, Nth(offers, i)) = OfferTime(i, d)
       /\ sp > Len(trace) =>
            /\ n = 0 => now <= timings.INITIAL_DELAY_MAX
            /\ n > 0 => now <= OfferTime(n + 1, d)

\* a stopped instance has sent one entry with ttl 0 once the loop has run the
\* callbacks the stop scheduled, and never more than one
C13_StopEntry ==
  \A inst \in DOMAIN instances : \A st \in StartsOf(inst) :
    LET sp == NextIn(StopsOf(inst), st)
        again == NextIn(StartsOf(inst), sp)
        stops == OffersSent(inst, 0, sp, again)
    IN sp <= Len(trace) =>
         /\ Cardinality(stops) <= 1
         /\ (ready = <<>> \/ again <= Len(trace)) => Cardinality(stops) = 1

\* C13: a started ServiceInstance sends OfferService entries with ttl =
\* ANNOUNCE_TTL at d after start (d the initial delay), then after each further
\* sleep of 2^i x REPETITIONS_BASE_DELAY for i = 0..REPETITIONS_MAX-1, then
\* every CYCLIC_OFFER_DELAY (0, 0.01, 0.03, 0.13, 0.23 s for d = 0, two
\* repetitions from 0.01 s and a cycle of 0.1 s), and stopping it sends a
\* final entry with ttl = 0
C13_OfferCycle == C13_Schedule /\ C13_StopEntry

\* C14: with CYCLIC_OFFER_DELAY > 0, once the cancelled offer task of a stopped
\* instance has run, in whichever phase it was cancelled, exactly one
\* OfferService entry with ttl = 0 has been sent for the service, after every
\* ttl > 0 offer of the task
C14_StopOffer ==
  timings.CYCLIC_OFFER_DELAY > 0 =>
    \A inst \in DOMAIN instances : \A sp \in StopsOf(inst) :
      LET again == NextIn(StartsOf(inst), sp)
          stops == OffersSent(inst, 0, sp, again)
          id == instances[inst]._task
      IN (\A t \in tasks : t.id.inst # inst \/ t.id = id) =>
           /\ Cardinality(stops) = 1
           /\ \A k \in OffersSent(inst, timings.ANNOUNCE_TTL, 1, again) :
                \A z \in stops : k < z

(***************************************************************************)
(* Answer: properties                                                      *)
(***************************************************************************)

\* the last position before k in the set S, or 0
LastIn(S, k) ==
  IF \E x \in S : x < k THEN CHOOSE x \in S : x < k /\ \A y \in S : y < k => y <= x
                        ELSE 0

\* whether, just before position k, inst is in its Initial Wait phase: its
\* start() has been called, its stop() has not been called since, and it has
\* sent no offer since
InitialWaitAt(inst, k) ==
  LET st == LastIn(StartsOf(inst), k)
  IN /\ st > 0
     /\ NextIn(StopsOf(inst), st) >= k
     /\ OffersSent(inst, timings.ANNOUNCE_TTL, st, k) = {}

\* whether, just before position k, inst is started and past its first offer
CanAnswerAt(inst, k) ==
  LET st == LastIn(StartsOf(inst), k)
  IN /\ st > 0
     /\ NextIn(StopsOf(inst), st) >= k
     /\ OffersSent(inst, timings.ANNOUNCE_TTL, st, k) # {}

\* the positions at which handle_findservice got from p an entry that matches
\* the service of inst
FindsFor(inst, p) ==
  {k \in EventsOf("handle_findservice") :
     /\ trace[k].addr = p
     /\ matches_find(instances[inst].service, trace[k].entry)}

\* whether the entry handled at position f came over multicast
OverMulticast(f) ==
  \E m \in EventsOf("message_received") :
    trace[m].dg = trace[f].dg /\ trace[m].multicast

\* the positions at which inst queued an OfferService entry addressed to p
Answers(inst, p) ==
  {k \in EventsOf("queue_send") :
     /\ trace[k].remote = p
     /\ trace[k].entry = create_offer_entry(instances[inst].service, timings.ANNOUNCE_TTL)}

\* the number of calls _send_offer(p) of inst the loop still has to make
PendingAnswers(inst, p) ==
  Cardinality({i \in DOMAIN ready : ready[i] = send_offer_cb(inst, p)})
  + Cardinality({i \in DOMAIN ready : ready[i].fn = "timer_handle"
                                      /\ ready[i].h.cb = send_offer_cb(inst, p)})
  + Cardinality({t \in timers : t.h.cb = send_offer_cb(inst, p)})

\* C15: a step in which the loop handles a datagram from p while inst is in its
\* Initial Wait phase (started, first offer not yet sent) schedules no
\* _send_offer(p) of inst and queues no entry for p, whatever FindService
\* entries the datagram holds
C15_InitialWaitSilent ==
  [][\A inst \in DOMAIN instances : \A p \in Peers :
       (/\ ready # <<>>
        /\ Head(ready).fn = "datagram_received"
        /\ Head(ready).addr = p
        /\ InitialWaitAt(inst, Len(trace) + 1))
       => /\ PendingAnswers(inst, p)' = PendingAnswers(inst, p)
          /\ Answers(inst, p)' = Answers(inst, p)]_vars

\* a FindService entry that matches the service of i1 was handled while i1
\* was in its Initial Wait phase; i1 has sent its first offer since and has
\* neither answered p nor is about to
C15_Witness ==
  \E p \in Peers : \E f \in FindsFor("i1", p) :
    /\ InitialWaitAt("i1", f)
    /\ OffersSent("i1", timings.ANNOUNCE_TTL, f, Len(trace)) # {}
    /\ Answers("i1", p) = {}
    /\ PendingAnswers("i1", p) = 0

\* C16: for every peer p and instance, the OfferService entries (ttl =
\* ANNOUNCE_TTL) the instance has queued for p or is about to are one for each
\* matching FindService entry from p handled while the instance could answer;
\* the answer to an entry received over multicast is queued
\* REQUEST_RESPONSE_DELAY_MIN..REQUEST_RESPONSE_DELAY_MAX after it, the answer
\* to one received over unicast before any time passes; nothing else is queued
\* for a peer
C16_FindAnswered ==
  /\ \A k \in EventsOf("queue_send") :
       trace[k].remote # None => \E inst \in DOMAIN instances : k \in Answers(inst, trace[k].remote)
  /\ \A inst \in DOMAIN instances : \A p \in Peers :
       LET finds == {f \in FindsFor(inst, p) : CanAnswerAt(inst, f)}
           answers == Answers(inst, p)
       IN /\ Cardinality(answers) + PendingAnswers(inst, p) = Cardinality(finds)
          /\ \A i \in 1..Cardinality(finds) :
               LET f == Nth(finds, i)
                   upto == IF i <= Cardinality(answers) THEN Nth(answers, i) ELSE Len(trace)
                   waited == Ticks(f, upto)
               IN /\ f <= upto
                  /\ i <= Cardinality(answers) => f < upto
                  /\ IF OverMulticast(f)
                       THEN /\ waited <= timings.REQUEST_RESPONSE_DELAY_MAX
                            /\ i <= Cardinality(answers) =>
                                 waited >= timings.REQUEST_RESPONSE_DELAY_MIN
                       ELSE waited = 0

\* both instances have answered a FindService entry received over multicast
\* after the longest delay
C16_WitnessMulticast ==
  \E f \in FindsFor("i1", "p1") :
    /\ OverMulticast(f)
    /\ \A inst \in DOMAIN instances :
         \E a \in Answers(inst, "p1") : Ticks(f, a) = timings.REQUEST_RESPONSE_DELAY_MAX

(***************************************************************************)
(* Lost: properties                                                        *)
(***************************************************************************)

\* whether entry may not be emitted once the connection is lost
Forbidden(entry) ==
  \/ entry.sd_type = "FindService"
  \/ entry.sd_type \in {"OfferService", "Subscribe"} /\ entry.ttl > 0

\* the positions after k at which the expire callback of the stored entry
\* removed at k was delivered
Delivered(k) ==
  {d \in DOMAIN trace :
     /\ d > k
     /\ \/ /\ trace[d].ev = "_notify_service_stopped"
           /\ trace[k].store = "found"
           /\ trace[d].service = trace[k].entry
           /\ trace[d].source = trace[k].address
        \/ /\ trace[d].ev = "client_unsubscribed"
           /\ trace[d].instance = trace[k].store
           /\ trace[d].subscription = trace[k].entry
           /\ trace[d].source = trace[k].address}

\* once the three connection_lost callbacks have run, every task that has not
\* ended is cancelled
TasksCancelled ==
  \A a \in CallsOf("connection_lost", "announcer") :
    \A t \in tasks : t.must_cancel

\* once the three connection_lost callbacks have run, nothing forbidden is
\* emitted
NothingEmitted ==
  \A a \in CallsOf("connection_lost", "announcer") :
    \A k \in EventsOf("send") :
      k > a => \A i \in DOMAIN trace[k].entries : ~Forbidden(trace[k].entries[i])

\* once the three connection_lost callbacks have run, the stores are empty,
\* and once the loop is idle the expire callback of every entry they held
\* has been delivered once
StoresDrained ==
  \A a \in CallsOf("connection_lost", "announcer") :
    /\ \A sid \in DOMAIN stores : stores[sid] = <<>>
    /\ \A l \in CallsOf("connection_lost", "transport") :
         \A k \in EventsOf("removed") :
           k > l => /\ Cardinality(Delivered(k)) <= 1
                    /\ ready = <<>> => Cardinality(Delivered(k)) = 1

\* C17: after connection_lost and the callbacks it scheduled, each sub-engine
\* has cancelled its tasks, no FindService, OfferService with ttl > 0 or
\* Subscribe with ttl > 0 is emitted, the timed stores are empty and the
\* expire callback of each drained entry is delivered once
C17_ConnectionLost == TasksCancelled /\ NothingEmitted /\ StoresDrained

(***************************************************************************)
(* Envelope: properties                                                    *)
(***************************************************************************)

\* whether message_received has to drop the message
Dropped(someip_message) ==
  \/ someip_message.service_id # 65535
  \/ someip_message.method_id # 33024
  \/ someip_message.interface_version # 1
  \/ someip_message.return_code # "E_OK"
  \/ someip_message.message_type # "NOTIFICATION"
  \/ someip_message.payload = NoEntry

\* whether the loop is about to run datagram_received
DatagramIsNext == ready # <<>> /\ Head(ready).fn = "datagram_received"

\* whether the step takes the callback at the head of the ready queue (a timer
\* that comes due leaves it there)
HeadTaken == ready' = <<>> \/ Head(ready') # Head(ready)

\* C18: the step in which the loop hands message_received a message that fails
\* the SD envelope check, or whose payload is no SD header, changes nothing
\* but the ready queue it is taken from: SessionStorage.incoming stays, no
\* reboot_detected handler and no handle_offer is scheduled, nothing is logged
\* or stored; and whatever was dropped before, a well-formed message is
\* handled: its session is recorded and its offer scheduled for dispatch
C18_DropMalformed ==
  [][/\ (DatagramIsNext /\ HeadTaken /\ Dropped(Head(ready).data))
        => /\ ready' = Tail(ready)
           /\ UNCHANGED <<incoming, outgoing, timers, stores, sdVars, storeUserVars>>
     /\ (DatagramIsNext /\ HeadTaken /\ ~Dropped(Head(ready).data))
        => /\ Len(trace') > Len(trace)
           /\ trace'[Len(trace) + 1].ev = "message_received"
           /\ trace'[Len(trace) + 1].dg = Head(ready).dg
           /\ incoming'[<<Head(ready).addr, Head(ready).multicast>>] =
                [flag |-> Head(ready).data.payload.flag_reboot,
                 session_id |-> Head(ready).data.session_id]
           /\ Len(ready') >= Len(ready)]_vars

\* the first datagram was dropped: nothing came of it and the session
\* storage was still empty when the second, an offer, was handled
C18_Witness ==
  /\ ready = <<>>
  /\ NumArrived = 2
  /\ \A k \in DOMAIN trace : trace[k].dg # 1
  /\ \E b \in EventsOf("message_received") : trace[b].dg = 2 /\ ~trace[b].reboot
  /\ incoming[<<"p1", TRUE>>] # NoEntry
  /\ \E k \in EventsOf("service_offered") : trace[k].dg = 2

(***************************************************************************)
(* Collect: properties                                                     *)
(***************************************************************************)

\* the positions at which the entry queued at q was handed to send_sd
SentAt(q) ==
  {k \in EventsOf("send") : \E i \in DOMAIN trace[k].entries :
                               trace[k].entries[i] = trace[q].entry}

\* the place of the entry queued at q in the datagram sent at k
PlaceIn(q, k) == CHOOSE i \in DOMAIN trace[k].entries : trace[k].entries[i] = trace[q].entry

\* C19: with SEND_COLLECTION_TIMEOUT > 0 every queued entry is handed to
\* send_sd at most once, and exactly once when SEND_COLLECTION_TIMEOUT has
\* passed, for the remote it was queued for; entries for one remote go out in
\* the order queued, in one datagram if the later one was queued before the
\* earlier one went out; a datagram holds nothing queued for another remote or
\* not queued at all; appending never finds the collector expired
C19_Collected ==
  timings.SEND_COLLECTION_TIMEOUT > 0 =>
    /\ EventsOf("RuntimeError") = {}
    /\ \A q \in EventsOf("queue_send") :
         /\ Cardinality(SentAt(q)) <= 1
         /\ \A k \in SentAt(q) :
              /\ q < k
              /\ trace[k].remote = trace[q].remote
              /\ Ticks(q, k) <= timings.SEND_COLLECTION_TIMEOUT
              /\ Cardinality({i \in DOMAIN trace[k].entries :
                                trace[k].entries[i] = trace[q].entry}) = 1
         /\ SentAt(q) = {} =>
              /\ Ticks(q, Len(trace)) <= timings.SEND_COLLECTION_TIMEOUT
              /\ ready # <<>> \/ timers # {}
    /\ \A k \in EventsOf("send") : \A i \in DOMAIN trace[k].entries :
         \E q \in EventsOf("queue_send") : q < k /\ trace[q].entry = trace[k].entries[i]
    /\ \A q1, q2 \in EventsOf("queue_send") :
         (q1 < q2 /\ trace[q1].remote = trace[q2].remote) =>
           \A k2 \in SentAt(q2) : \E k1 \in SentAt(q1) :
             /\ k1 <= k2
             /\ k1 = k2 => PlaceIn(q1, k1) < PlaceIn(q2, k2)
             /\ q2 < k1 => k1 = k2

\* two entries queued for p1 a tick apart went out in one datagram, one for
\* p2 queued between them in another, and a later entry for p1 in a third
C19_Witness ==
  \E q1, q2, q3, q4 \in EventsOf("queue_send") :
    /\ q1 < q2 /\ q2 < q3 /\ q3 < q4
    /\ trace[q1].remote = "p1" /\ trace[q2].remote = "p2"
    /\ trace[q3].remote = "p1" /\ trace[q4].remote = "p1"
    /\ Ticks(q1, q3) = 1
    /\ \E k \in SentAt(q1) : k \in SentAt(q3) /\ k < q4 /\ Len(trace[k].entries) = 2
    /\ SentAt(q2) # {}
    /\ SentAt(q4) # {}

(***************************************************************************)
(* Subscribe: properties                                                   *)
(***************************************************************************)

\* the positions at which ServiceSubscriber.start started the refresh task
SubscriberStarts == {k \in CallsOf("start", "subscriber") : ~trace[k].alive}

\* the iterations of the refresh loop of the task started at st
Iterations(st) ==
  {k \in EventsOf("_subscribe") : st < k /\ k < NextIn(SubscriberStarts, st)}

\* the eventgroups registered for remote in the list pairs, in order
RegisteredFor(pairs, remote) ==
  LET mine == SelectSeq(pairs, LAMBDA p : p[2] = remote)
  IN [j \in DOMAIN mine |-> mine[j][1]]

\* whether entry is the Subscribe entry of eventgroup with the given ttl
IsSubscribeOf(entry, eventgroup, ttl) ==
  /\ entry.sd_type = "Subscribe"
  /\ entry.service_id = eventgroup.service_id
  /\ entry.instance_id = eventgroup.instance_id
  /\ entry.major_version = eventgroup.major_version
  /\ entry.ttl = ttl
  /\ entry.minver_or_counter = eventgroup.eventgroup_id

\* one iteration of the refresh loop sends one datagram to each remote that
\* has an eventgroup registered, holding one entry per registered eventgroup,
\* and nothing else
IterationSends(k) ==
  LET pairs == trace[k].subscribeentries
      sends == {m \in EventsOf("send") : trace[m].cause = k}
  IN /\ \A m \in sends : \E j \in DOMAIN pairs : pairs[j][2] = trace[m].remote
     /\ \A j \in DOMAIN pairs :
          LET remote == pairs[j][2]
              groups == RegisteredFor(pairs, remote)
              to == {m \in sends : trace[m].remote = remote}
          IN /\ Cardinality(to) = 1
             /\ \A m \in to :
                  /\ Len(trace[m].entries) = Len(groups)
                  /\ \A g \in DOMAIN groups :
                       IsSubscribeOf(trace[m].entries[g], groups[g], timings.SUBSCRIBE_TTL)

\* C20: the task started by ServiceSubscriber.start runs an iteration at
\* start and, with SUBSCRIBE_REFRESH_INTERVAL = R, one every R after it until
\* it is stopped, never late; each iteration sends one datagram per distinct
\* remote with one Subscribe entry (ttl = SUBSCRIBE_TTL) per eventgroup
\* registered for the remote at that moment; with SUBSCRIBE_REFRESH_INTERVAL
\* absent there is one iteration and the task has ended after it
C20_RefreshLoop ==
  \A st \in SubscriberStarts :
    LET sp == NextIn(CallsOf("stop", "subscriber"), st)
        its == Iterations(st)
        n == Cardinality(its)
        R == timings.SUBSCRIBE_REFRESH_INTERVAL
        id == [inst |-> "subscriber", n |-> Cardinality({x \in SubscriberStarts : x <= st})]
    IN /\ \A k \in its : k < sp /\ IterationSends(k)
       /\ n > 0 => Ticks(st, Nth(its, 1)) = 0
       /\ (n = 0 /\ sp > Len(trace)) => (ready # <<>> /\ Ticks(st, Len(trace)) = 0)
       /\ IF R = NoEntry
            THEN /\ n <= 1
                 /\ n = 1 => \A t \in tasks : t.id # id
            ELSE /\ \A i \in 2..n : Ticks(Nth(its, i - 1), Nth(its, i)) = R.seconds
                 /\ (n > 0 /\ sp > Len(trace)) =>
                      /\ Ticks(Nth(its, n), Len(trace)) <= R.seconds
                      /\ \E t \in tasks : t.id = id /\ ~t.must_cancel

\* with a refresh interval, the third iteration has sent one datagram with
\* two entries to p1 and one with one entry to p2
C20_Witness ==
  /\ timings.SUBSCRIBE_REFRESH_INTERVAL # NoEntry
  /\ \E st \in SubscriberStarts :
       /\ Cardinality(Iterations(st)) = 3
       /\ LET k == Nth(Iterations(st), 3)
          IN /\ Len(trace[k].subscribeentries) = 3
             /\ \E m \in EventsOf("send") :
                  trace[m].cause = k /\ trace[m].remote = "p1" /\ Len(trace[m].entries) = 2
             /\ \E m \in EventsOf("send") :
                  trace[m].cause = k /\ trace[m].remote = "p2" /\ Len(trace[m].entries) = 1

(***************************************************************************)
(* Unsubscribe: properties                                                 *)
(***************************************************************************)

\* the positions at which a Subscribe entry of eventgroup with the given ttl
\* was sent to remote
SubscribesSent(eventgroup, remote, ttl) ==
  {m \in EventsOf("send") :
     /\ trace[m].remote = remote
     /\ \E i \in DOMAIN trace[m].entries : IsSubscribeOf(trace[m].entries[i], eventgroup, ttl)}

\* the number of stop-subscribes for the pair the loop still has to send
PendingStops(eventgroup, remote) ==
  Cardinality({i \in DOMAIN ready :
                 /\ ready[i].fn = "_send_stop_subscribe"
                 /\ ready[i].remote = remote
                 /\ \E j \in DOMAIN ready[i].entries : ready[i].entries[j] = eventgroup})

\* the positions at which the pair was unregistered by
\* stop_subscribe_eventgroup, and those with the stop-subscribe asked for
Unregistered(eventgroup, remote) ==
  {c \in EventsOf("stop_subscribe_eventgroup") :
     /\ trace[c].eventgroup = eventgroup /\ trace[c].endpoint = remote
     /\ trace[c].registered}

\* the positions at which a running Subscriber was stopped while the pair
\* was registered
StoppedWith(eventgroup, remote) ==
  {c \in CallsOf("stop", "subscriber") :
     /\ trace[c].alive
     /\ \E i \in DOMAIN trace[c].entries : trace[c].entries[i] = <<eventgroup, remote>>}

\* the positions at which the pair was registered
Registered(eventgroup, remote) ==
  {c \in EventsOf("subscribe_eventgroup") :
     trace[c].eventgroup = eventgroup /\ trace[c].endpoint = remote}

\* stop_subscribe_eventgroup removes a registered pair, and the stop-subscribes
\* sent or about to be sent for a pair are one for each stop that asked for it
\* while the pair was registered; other stops send nothing
StopSubscribeSent ==
  \A p \in UnsubscribePairs :
    /\ (\E i \in DOMAIN subscriber.subscribeentries : subscriber.subscribeentries[i] = p)
         <=> LastIn(Registered(p[1], p[2]), Len(trace) + 1)
               > LastIn(Unregistered(p[1], p[2]), Len(trace) + 1)
    /\ Cardinality(SubscribesSent(p[1], p[2], 0)) + PendingStops(p[1], p[2])
         = Cardinality({c \in Unregistered(p[1], p[2]) \cup StoppedWith(p[1], p[2]) :
                          trace[c].send})

\* a stopped Subscriber runs no iteration of the refresh loop until it is
\* started again
LoopEnded ==
  \A c \in CallsOf("stop", "subscriber") :
    \A k \in EventsOf("_subscribe") : k > c => NextIn(SubscriberStarts, c) < k

\* after a stop, a Subscribe with ttl > 0 for the pair is only sent ahead of
\* the stop-subscribe, until the pair is subscribed or the Subscriber started
\* again
NoSubscribeAfterStop ==
  \A p \in UnsubscribePairs :
    \A c \in Unregistered(p[1], p[2]) \cup StoppedWith(p[1], p[2]) :
      \A m \in SubscribesSent(p[1], p[2], timings.SUBSCRIBE_TTL) :
        (c < m /\ m < NextIn(Registered(p[1], p[2]) \cup SubscriberStarts, c))
          => /\ trace[c].send
             /\ \/ PendingStops(p[1], p[2]) > 0
                \/ \E z \in SubscribesSent(p[1], p[2], 0) : m < z

\* C21: stop_subscribe_eventgroup for a registered pair removes it and sends
\* one Subscribe with ttl = 0 unless send is false, and sends nothing for an
\* unregistered pair; stop() sends one for every registered pair unless
\* suppressed and ends the refresh loop; no Subscribe with ttl > 0 for a
\* stopped pair is sent afterwards until the pair is subscribed again or the
\* Subscriber is started again
C21_StopSubscribe == StopSubscribeSent /\ LoopEnded /\ NoSubscribeAfterStop

(***************************************************************************)
(* End: properties                                                         *)
(***************************************************************************)

\* the offer task of inst has returned by itself: the instance still holds
\* it and it has finished
Completed(inst) ==
  /\ instances[inst]._task # NoEntry
  /\ ~\E t \in tasks : t.id = instances[inst]._task

\* an instance without a task (never started, or stopped) has no
\* subscription stored: stop() removes them all
StopRemovesAll ==
  \A inst \in DOMAIN instances :
    instances[inst]._task = NoEntry => ts_entries(stores[inst]) = {}

\* the positions at which stop_all or stop_all_for_address took a
\* subscription out of the store of an instance
EndedSubscriptions ==
  {r \in DOMAIN trace :
     /\ trace[r].ev = "removed"
     /\ trace[r].by = "stop_all_for_address"
     /\ trace[r].store # "found"}

\* client_unsubscribed is delivered once for each subscription taken out:
\* the calls made for it and those waiting in the loop are as many as its
\* removals, each call after its removal
DeliveredOnce ==
  \A r \in EndedSubscriptions :
    LET key == Identity(trace[r].entry)
        R == RemovedAt(trace[r].store, trace[r].address, key)
        N == UnsubscribedCalls(trace[r].store, trace[r].address, key)
    IN /\ Cardinality(R)
            = Cardinality(N) + PendingUnsubscribed(trace[r].store, trace[r].address, key)
       /\ \A n \in 1..Cardinality(N) : Nth(R, n) < Nth(N, n)

\* whether the removal at r was made by a call of ServiceAnnouncer.stop
ByStop(r) ==
  \E k \in 1..(r - 1) :
    /\ trace[k].ev = "stop"
    /\ trace[k].who = "announcer"
    /\ \A m \in (k + 1)..(r - 1) : trace[m].ev \in {"removed", "queue_send", "send"}

\* whether the removal at r was made for a reboot of the peer
ByReboot(r) ==
  /\ trace[r].cause # 0
  /\ trace[trace[r].cause].ev = "reboot_detected"

\* a subscription leaves the store of an instance by its expiry, by a
\* StopSubscribe, by a reboot of its peer or by stop(), and in no other way:
\* the return of the offer task removes nothing
RemovedForCause ==
  \A r \in DOMAIN trace :
    (trace[r].ev = "removed" /\ trace[r].store # "found") =>
      \/ trace[r].by \in {"_expired", "stop"}
      \/ trace[r].by = "stop_all_for_address" /\ (ByStop(r) \/ ByReboot(r))

\* C30 (amended): when stop() ends the announcement of a ServiceInstance,
\* every subscription stored for the instance is removed and
\* client_unsubscribed is delivered once for each of them; when the offer
\* task returns by itself nothing is removed
C30_StopEndsSubscriptions ==
  /\ StopRemovesAll
  /\ DeliveredOnce
  /\ RemovedForCause

\* C30 witness: without cyclic offers a subscription was accepted and was
\* still stored a second later, when the offer task had long returned; stop()
\* then removed it and client_unsubscribed has been called for it once
C30_Witness ==
  /\ timings.CYCLIC_OFFER_DELAY = 0
  /\ \E r \in EndedSubscriptions :
       /\ ByStop(r)
       /\ \E j \in 1..(r - 1) :
            /\ trace[j].ev = "instance_handle_subscribe"
            /\ trace[j].instance = trace[r].store
            /\ Identity(from_subscribe_entry(trace[j].entry)) = Identity(trace[r].entry)
            /\ Ticks(j, r) = 1
       /\ Cardinality({u \in UnsubscribedCalls(trace[r].store, trace[r].address,
                                                Identity(trace[r].entry)) : u > r}) = 1
       /\ PendingUnsubscribed(trace[r].store, trace[r].address, Identity(trace[r].entry)) = 0

\* C30 as stated: the subscriptions are also removed when the offer task
\* returns by itself
C30_CompletionEndsSubscriptions ==
  /\ StopRemovesAll
  /\ DeliveredOnce
  /\ \A inst \in DOMAIN instances : Completed(inst) => ts_entries(stores[inst]) = {}

(***************************************************************************)
(* Wire format: properties                                                 *)
(***************************************************************************)

\* an option whose fields fit the wire: integers within their widths, an
\* unknown option's type not one of a registered class, config keys not
\* empty and without "=", ASCII throughout
WellFormedOption(o) ==
  CASE o.cls = "SOMEIPSDUnknownOption" ->
         /\ o.type \in 0..255
         /\ \A cls \in RegisteredOptions : option_type(cls) # o.type
         /\ Len(o.payload) <= 65535
    [] o.cls = "SOMEIPSDLoadBalancingOption" -> o.priority \in 0..65535 /\ o.weight \in 0..65535
    [] o.cls = "SOMEIPSDConfigOption" ->
         \A i \in DOMAIN o.configs :
            LET k == o.configs[i][1]
                v == o.configs[i][2]
            IN /\ k # <<>>
               /\ \A c \in DOMAIN k : k[c] <= 127 /\ k[c] # EQUALS_SIGN
               /\ v # None => \A c \in DOMAIN v : v[c] <= 127
               /\ Len(k) + (IF v = None THEN 0 ELSE Len(v) + 1) <= 255
    [] OTHER ->
         /\ Len(o.address) = calcsize(ip_format(o.cls)[2])
         /\ o.l4proto \in 0..255
         /\ o.port \in 0..65535

\* an entry with resolved options whose fields fit the wire
WellFormedEntry(e) ==
  /\ e.option_index_1 = Absent /\ e.option_index_2 = Absent
  /\ e.num_options_1 = Absent /\ e.num_options_2 = Absent
  /\ Len(e.options_1) <= RUN_MAX /\ Len(e.options_2) <= RUN_MAX
  /\ \A i \in DOMAIN e.options_1 : WellFormedOption(e.options_1[i])
  /\ \A i \in DOMAIN e.options_2 : WellFormedOption(e.options_2[i])
  /\ e.service_id \in 0..65535 /\ e.instance_id \in 0..65535
  /\ e.major_version \in 0..255
  /\ e.ttl \in 0..16777215
  /\ e.minver_or_counter >= 0
  /\ e.sd_type \in {"Subscribe", "SubscribeAck"} => e.minver_or_counter < 1048576

\* a well-formed SD header with resolved options, of at most OPTIONS_MAX
\* options once the indexes are assigned
WellFormedHeader(H) ==
  /\ \A i \in DOMAIN H.entries : WellFormedEntry(H.entries[i])
  /\ \A i \in DOMAIN H.options : WellFormedOption(H.options[i])
  /\ H.flags_unknown \in 0..63
  /\ Len(assign_option_indexes(H).options) <= OPTIONS_MAX

\* C22: a well-formed SD header with resolved options, runs of at most 15 and
\* at most 255 options in all, is built without error once its option
\* indexes are assigned; the bytes parse with no rest, and after
\* resolve_options the parsed header has the flags and the entries, with both
\* option runs each, of the header given
C22_SdRoundTrip ==
  (WellFormedHeader(wire.given) /\ wire.cut = 0) =>
     /\ wire.built # NoEntry => wire.built.raised = None
     /\ wire.parsed # NoEntry => wire.parsed.raised = None /\ wire.parsed.value[2] = <<>>
     /\ wire.resolved # NoEntry =>
          /\ wire.resolved.raised = None
          /\ wire.resolved.value.entries = wire.given.entries
          /\ wire.resolved.value.flag_reboot = wire.given.flag_reboot
          /\ wire.resolved.value.flag_unicast = wire.given.flag_unicast
          /\ wire.resolved.value.flags_unknown = wire.given.flags_unknown

\* a header of two entries that share a run has gone through: the second
\* entry refers to options the first one put into the header
C22_Witness ==
  /\ WellFormedHeader(wire.given)
  /\ wire.cut = 0
  /\ wire.resolved # NoEntry
  /\ Len(wire.given.entries) = 2
  /\ wire.given.entries[2].options_1 # <<>>
  /\ wire.given.entries[2].options_1 = wire.given.entries[1].options_2
  /\ Len(wire.parsed.value[1].options) = Len(wire.given.entries[1].options_2)

\* the option runs of a header's entries in the order assign_option_indexes
\* takes them: run 1 and run 2 of the first entry, then of the second, ...
RunsOf(H) ==
  [n \in 1..(2 * Len(H.entries)) |->
     IF n % 2 = 1 THEN H.entries[(n + 1) \div 2].options_1 ELSE H.entries[n \div 2].options_2]

\* the index and the count assigned to the n-th run
RefOf(H, n) ==
  IF n % 2 = 1
    THEN <<H.entries[(n + 1) \div 2].option_index_1[1], H.entries[(n + 1) \div 2].num_options_1[1]>>
    ELSE <<H.entries[n \div 2].option_index_2[1], H.entries[n \div 2].num_options_2[1]>>

\* the places (counted from 0) at which run is a contiguous slice of options
Occurrences(run, options) ==
  {k \in 0..(Len(options) - Len(run)) : Slice(options, k, k + Len(run)) = run}

\* first fit: each run in turn refers to its leftmost occurrence in the list
\* built so far, or is appended if it does not occur; an empty run is (0, 0)
RECURSIVE FirstFit(_, _)
FirstFit(runs, options) ==
  IF runs = <<>>
    THEN [refs |-> <<>>, options |-> options]
    ELSE LET run == Head(runs)
             at == Occurrences(run, options)
             ref == IF run = <<>> THEN <<0, 0>>
                    ELSE IF at = {} THEN <<Len(options), Len(run)>>
                    ELSE <<CHOOSE k \in at : \A m \in at : k <= m, Len(run)>>
             rest == FirstFit(Tail(runs), IF run # <<>> /\ at = {} THEN options \o run ELSE options)
         IN [refs |-> <<ref>> \o rest.refs, options |-> rest.options]

\* the entries of the header given all carry resolved options and the
\* indexes have been assigned
RunsAssigned ==
  /\ wire.assigned # NoEntry
  /\ \A i \in DOMAIN wire.given.entries : options_resolved(wire.given.entries[i])

\* bound: the length up to which the options list is compared with every
\* shorter list
MaxShortest == 8

\* no list shorter than the one assigned holds every run as a contiguous slice
Shortest ==
  (/\ RunsAssigned
   /\ wire.built = NoEntry
   /\ wire.given.options = <<>>
   /\ Len(wire.assigned.options) <= MaxShortest
   /\ \A i \in DOMAIN wire.assigned.options : wire.assigned.options[i] \in {OptA, OptB})
  => \A shorter \in SeqsUpTo({OptA, OptB}, Len(wire.assigned.options) - 1) :
        \E n \in DOMAIN RunsOf(wire.given) : Occurrences(RunsOf(wire.given)[n], shorter) = {}

\* C23 (amended): after assign_option_indexes the options list is the
\* header's own options followed, in the order of the entries and run 1
\* before run 2, by each non-empty run that was no contiguous slice of the
\* list built so far; a run that already occurs refers to its leftmost
\* occurrence and appends nothing; every run is the slice of the final list
\* that its index and count name; the entries keep no resolved options
C23_FirstFit ==
  RunsAssigned =>
     LET fit == FirstFit(RunsOf(wire.given), wire.given.options)
     IN /\ wire.assigned.options = fit.options
        /\ \A n \in DOMAIN fit.refs :
              /\ RefOf(wire.assigned, n) = fit.refs[n]
              /\ Slice(wire.assigned.options, fit.refs[n][1], fit.refs[n][1] + fit.refs[n][2])
                   = RunsOf(wire.given)[n]
        /\ \A i \in DOMAIN wire.assigned.entries :
              wire.assigned.entries[i].options_1 = <<>> /\ wire.assigned.entries[i].options_2 = <<>>

\* a run was found as a slice that begins inside the options one entry added
\* and is neither the first nor the last place it could be read from
C23_Witness ==
  /\ RunsAssigned
  /\ Len(wire.given.entries) = 2
  /\ \E n \in 3..4 :
        /\ RefOf(wire.assigned, n)[1] > Len(wire.given.options)
        /\ RefOf(wire.assigned, n)[1] + RefOf(wire.assigned, n)[2] < Len(wire.assigned.options)
        /\ RefOf(wire.assigned, n)[2] >= 2

\* C23, as the specification states it: the options list is the shortest list
\* in which both runs of every entry are contiguous slices, and a run that
\* occurs in the list built so far refers to that slice
C23_ShortestList == Shortest /\ C23_FirstFit

\* C24: after assign_option_indexes, two runs of the header's entries (of two
\* entries or of one) that are the same non-empty run have the same option
\* index and the same count
C24_SharedRuns ==
  RunsAssigned =>
     \A n, m \in DOMAIN RunsOf(wire.given) :
        (RunsOf(wire.given)[n] # <<>> /\ RunsOf(wire.given)[n] = RunsOf(wire.given)[m])
           => RefOf(wire.assigned, n) = RefOf(wire.assigned, m)

\* an entry with option indexes that parse must not accept among num_options
\* options: a run that ends beyond the options, or a Subscribe / SubscribeAck
\* with one of the upper 12 bits of minver_or_counter set
BadEntry(e, num_options) ==
  \/ e.option_index_1[1] + e.num_options_1[1] > num_options
  \/ e.option_index_2[1] + e.num_options_2[1] > num_options
  \/ e.sd_type \in {"Subscribe", "SubscribeAck"} /\ BitAnd(e.minver_or_counter \div 1048576, 4095) # 0

\* the header parse accepted has no such entry
AcceptedIsValid ==
  (wire.parsed # NoEntry /\ wire.parsed.raised = None) =>
     \A i \in DOMAIN wire.parsed.value[1].entries :
        ~BadEntry(wire.parsed.value[1].entries[i], Len(wire.parsed.value[1].options))

\* the bytes built from a header with such an entry are rejected with ParseError
BadIsRejected ==
  (/\ wire.parsed # NoEntry
   /\ wire.cut = 0
   /\ \E i \in DOMAIN wire.assigned.entries :
         BadEntry(wire.assigned.entries[i], Len(wire.assigned.options)))
  => wire.parsed.raised \in ParseErrors

\* resolve_options on a parsed header gives every run its num_options options
ResolvedRunsComplete ==
  wire.resolved # NoEntry =>
     /\ wire.resolved.raised = None
     /\ \A i \in DOMAIN wire.resolved.value.entries :
           /\ Len(wire.resolved.value.entries[i].options_1) = wire.parsed.value[1].entries[i].num_options_1[1]
           /\ Len(wire.resolved.value.entries[i].options_2) = wire.parsed.value[1].entries[i].num_options_2[1]

\* C25: every SD header accepted by SOMEIPSDHeader.parse has, for each entry
\* and both runs, option_index + num_options <= len(options), and for each
\* Subscribe / SubscribeAck entry minver_or_counter & 0xFFF00000 = 0; a buffer
\* that violates either is rejected with ParseError; resolve_options on a
\* parsed header yields runs of exactly num_options options
C25_ParseValidates == AcceptedIsValid /\ BadIsRejected /\ ResolvedRunsComplete

\* a field of the entry is beyond its wire width
ExceedsWidth(e) ==
  \/ e.option_index_1[1] > 255 \/ e.option_index_2[1] > 255
  \/ e.num_options_1[1] > 15 \/ e.num_options_2[1] > 15
  \/ e.service_id > 65535 \/ e.instance_id > 65535
  \/ e.major_version > 255
  \/ e.ttl > 16777215
  \/ e.minver_or_counter \div 65536 > 65535

\* build raises for an entry with a field beyond its width
WidthsChecked ==
  (wire.built # NoEntry /\ ~options_resolved(wire.given) /\ ExceedsWidth(wire.given))
     => wire.built.raised # None

\* bytes that build returned and parse accepts parse to the entry given
BuiltParsesBack ==
  (wire.parsed # NoEntry /\ wire.parsed.raised = None) => wire.parsed.value[1] = wire.given

\* build raises for an entry whose option indexes are not assigned
UnassignedFails ==
  (wire.built # NoEntry /\ options_resolved(wire.given)) => wire.built.raised = "ValueError"

\* C26: SOMEIPSDEntry.build raises whenever a field exceeds its wire width
\* (option index > 255, more than 15 options in a run, service or instance id
\* > 0xFFFF, major version > 0xFF, ttl > 0xFFFFFF, minver_or_counter >
\* 0xFFFFFFFF); it never returns bytes that parse back to other field values
\* than the ones given; it raises for an entry without assigned indexes
C26_BuildChecksWidths == WidthsChecked /\ BuiltParsesBack /\ UnassignedFails

\* a SOME/IP header whose fields are within their wire widths, of protocol
\* version 1
WellFormedPacket(h) ==
  /\ h.service_id \in 0..65535 /\ h.method_id \in 0..65535
  /\ h.client_id \in 0..65535 /\ h.session_id \in 0..65535
  /\ h.interface_version \in 0..255
  /\ h.protocol_version = 1
  /\ h.message_type \in SOMEIPMessageType
  /\ \E i \in DOMAIN SOMEIPReturnCode : SOMEIPReturnCode[i] = h.return_code

\* C27: for every well-formed SOME/IP header h, build returns bytes whose
\* length field (bytes 4..7) is len(payload) + 8, and parse of these bytes
\* returns h and an empty rest
C27_HeaderRoundTrip ==
  WellFormedPacket(wire.given) =>
     /\ (wire.built # NoEntry /\ wire.cut = 0) =>
           /\ wire.built.raised = None
           /\ unpack_one("I", Slice(wire.built.value, 4, 8)) = Len(wire.given.payload) + 8
     /\ (wire.parsed # NoEntry /\ wire.cut = 0) => wire.parsed = Ok(<<wire.given, <<>>>>)

\* a header with a payload of 300 bytes, an error type and a return code
\* other than E_OK has been built and parsed
C27_Witness ==
  /\ WellFormedPacket(wire.given)
  /\ wire.cut = 0
  /\ wire.parsed # NoEntry
  /\ Len(wire.given.payload) = 300
  /\ wire.given.message_type = "ERROR_ACK"
  /\ wire.given.return_code = "E_WRONG_MESSAGE_TYPE"
  /\ wire.given.session_id = 65535

(***************************************************************************)
(* Entries: properties                                                     *)
(***************************************************************************)

\* the four option-index fields of an entry
IndexFields(e) == <<e.option_index_1, e.option_index_2, e.num_options_1, e.num_options_2>>

\* C34: options_resolved is true exactly when all four option-index fields
\* (option_index_1, option_index_2, num_options_1, num_options_2) are absent,
\* and false as soon as any one of them is set
C34_OptionsResolved ==
  options_resolved(wire.given) <=> \A i \in 1..4 : IndexFields(wire.given)[i] = Absent

\* ---- Link: one sender, one receiver, datagrams in order with losses ------

\* bound: datagrams the sender puts on the link
MaxLinkCalls == 5

\* bound: datagrams on the link at once
MaxInFlight == 2

\* the receiver's key for the sender
LinkKey == <<"p1", FALSE>>

\* where a run begins: the sender's next pair (NoEntry: never sent) and the
\* pair the receiver saw last (NoEntry: none), taken from one history of
\* assign_outgoing calls whose earlier datagrams were delivered or lost
LinkStarts ==
  {[next |-> NoEntry, seen |-> NoEntry]}
  \cup {[next |-> SessionRecord(TRUE, SESSION_ID_MAX - 2), seen |-> s] :
          s \in {NoEntry, SessionRecord(TRUE, 1), SessionRecord(TRUE, SESSION_ID_MAX - 3)}}
  \cup {[next |-> SessionRecord(FALSE, SESSION_ID_MAX - 2), seen |-> s] :
          s \in {NoEntry, SessionRecord(TRUE, SESSION_ID_MAX), SessionRecord(FALSE, 1),
                 SessionRecord(FALSE, SESSION_ID_MAX - 3)}}

InitLink ==
  /\ \E b \in LinkStarts :
       /\ incoming = [k \in IncomingKeys |-> IF k = LinkKey THEN b.seen ELSE NoEntry]
       /\ outgoing = [r \in Remotes |-> IF r = None THEN b.next ELSE NoEntry]
  /\ cr = NoEntry
  /\ ao_count = [r \in Remotes |-> 0]
  /\ ao_last = [r \in Remotes |-> NoEntry]
  /\ ThreadsIdle
  /\ SdIdle
  /\ ready = <<>>
  /\ timers = {}
  /\ stores = <<>>
  /\ notified = <<>>
  /\ owed = <<>>
  /\ last_ttl = <<>>
  /\ wire = <<>>

\* send_sd: the header carries the pair assign_outgoing returned
LinkSend ==
  LET a == assign_outgoing(outgoing, None)
  IN /\ ao_count[None] < MaxLinkCalls
     /\ Len(wire) < MaxInFlight
     /\ outgoing' = a.outgoing
     /\ ao_count' = [ao_count EXCEPT ![None] = @ + 1]
     /\ ao_last' = [ao_last EXCEPT ![None] = a.ret]
     /\ wire' = Append(wire, a.ret)
     /\ UNCHANGED <<incoming, cr, threadVars, loopVars, storeUserVars, sdVars>>

\* the oldest datagram on the link never arrives
LinkLose ==
  /\ wire # <<>>
  /\ wire' = Tail(wire)
  /\ UNCHANGED <<sessVars, threadVars, loopVars, storeUserVars, sdVars>>

\* datagram_received: the oldest datagram on the link is given to check_received
LinkReceive ==
  LET h == Head(wire)
      r == check_received(incoming, LinkKey[1], LinkKey[2], h.flag, h.session_id)
  IN /\ wire # <<>>
     /\ incoming' = r.incoming
     /\ cr' = [key |-> LinkKey, flag |-> h.flag, session_id |-> h.session_id,
               before |-> incoming, ret |-> r.ret]
     /\ wire' = Tail(wire)
     /\ UNCHANGED <<outgoing, ao_count, ao_last, threadVars, loopVars, storeUserVars, sdVars>>

NextLink == LinkSend \/ LinkLose \/ LinkReceive

SpecLink == InitLink /\ [][NextLink]_vars

\* ---- Link: properties -----------------------------------------------------

\* C38: a receiver fed, in sending order and with losses, the pairs that
\* successive assign_outgoing calls returned for one destination never has
\* check_received report a reboot, across the wrap from 0xFFFF to 1 included
C38_NoReboot == cr # NoEntry => ~cr.ret

\* the pair sent first after the wrap was lost and the next one arrived after
\* a pair from before the wrap
C38_Witness ==
  /\ cr # NoEntry
  /\ cr.before[LinkKey] # NoEntry
  /\ cr.before[LinkKey].flag
  /\ ~cr.flag
  /\ cr.session_id = 2
  /\ ~cr.ret

(***************************************************************************)
(* Withdraw: properties                                                    *)
(***************************************************************************)

\* the positions at which inst was stopped: by ServiceAnnouncer.stop while
\* announced, or by stop_announce_service
WithdrawnAt(inst) ==
  StopsOf(inst)
  \cup {k \in EventsOf("stop_announce_service") : trace[k].instance = inst}

\* the positions at which inst queued an OfferService entry with ttl > 0,
\* for the default destination or for a peer
OffersQueued(inst) ==
  {k \in EventsOf("queue_send") :
     trace[k].entry = create_offer_entry(instances[inst].service, timings.ANNOUNCE_TTL)}

\* C31: from the moment a ServiceInstance is stopped (ServiceAnnouncer.stop,
\* stop_announce_service with either value of send_stop) until it is started
\* again, it queues no OfferService entry with ttl > 0, neither from its
\* offer cycle nor as an answer to a FindService entry
C31_StoppedSilent ==
  \A inst \in DOMAIN instances : \A sp \in WithdrawnAt(inst) :
    \A k \in OffersQueued(inst) : ~(sp < k /\ k < NextIn(StartsOf(inst), sp))

(***************************************************************************)
(* Find: the repetition steps                                              *)
(***************************************************************************)

\* C32: the find loop goes through all REPETITIONS_MAX repetition steps: at
\* each of them the entry list is rebuilt and sent when it is not empty, also
\* after a step at which the list was empty, so a loop that has ended without
\* being stopped has built its entries REPETITIONS_MAX + 1 times
C32_EveryRepetition ==
  LET builds == EventsOf("_build_entries")
  IN /\ \A k \in builds :
          Unmatched(trace[k]) # <<>> => \E m \in SendsOf("FindService") : trace[m].cause = k
     /\ (/\ Cardinality(CallsOf("start", "discovery")) = 1
         /\ CallsOf("stop", "discovery") = {}
         /\ builds # {}
         /\ Unmatched(trace[Nth(builds, 1)]) # <<>>
         /\ task_of(World, discovery.task) = NoEntry)
        => Cardinality(builds) = timings.REPETITIONS_MAX + 1

(***************************************************************************)
(* Halt: properties                                                        *)
(***************************************************************************)

\* the positions at which the protocol was stopped or lost its connection
HaltsAt == CallsOf("stop", "protocol") \cup CallsOf("connection_lost", "transport")

\* the positions at which an entry with ttl = 0 of the given type was queued
\* or sent
StopEntriesAt(sd_type) ==
  {k \in EventsOf("queue_send") : trace[k].entry.sd_type = sd_type /\ trace[k].entry.ttl = 0}
  \cup {k \in SendsOf(sd_type) : \E i \in DOMAIN trace[k].entries : trace[k].entries[i].ttl = 0}

\* C33: stopping is idempotent: once stop() or connection_lost has stopped
\* Discover, Announce with its ServiceInstances and Subscriber, and the loop
\* has run what that scheduled, a further stop() or connection_lost raises no
\* error and emits no further stop offer or stop subscribe
C33_StopIdempotent ==
  \A first \in HaltsAt : \A again \in HaltsAt :
    first < again =>
      \A k \in EventsOf("raise") \cup StopEntriesAt("OfferService")
               \cup StopEntriesAt("Subscribe") : k < again

(***************************************************************************)
(* Discover: what a listener was told last                                 *)
(***************************************************************************)

\* the positions at which listener was told that service of address is
\* offered or stopped
ToldAt(listener, address, service) ==
  {k \in DOMAIN trace :
     /\ trace[k].ev \in {"service_offered", "service_stopped"}
     /\ trace[k].listener = listener
     /\ trace[k].service = service
     /\ trace[k].source = address}

\* whether the last thing listener was told about service of address is that
\* it is offered
ToldOffered(listener, address, service) ==
  LET told == ToldAt(listener, address, service)
  IN told # {} /\ trace[Nth(told, Cardinality(told))].ev = "service_offered"

\* C35: whenever the loop has no callback pending, every listener registered
\* for a filter was told last service_offered for exactly those services
\* matching the filter that are stored in found_services
C35_ToldWhatIsStored ==
  ready = <<>> =>
    \A i \in DOMAIN watched_services : \A listener \in watched_services[i].listeners :
      \A p \in FoundPairs :
        matches_service(watched_services[i].filter, p[2]) =>
          (ToldOffered(listener, p[1], p[2]) <=> is_stored(stores["found"], p[1], p[2]))

(***************************************************************************)
(* Announce: acknowledged subscriptions                                    *)
(***************************************************************************)

\* the ServiceInstance.handle_subscribe calls that queued a SubscribeAck
\* with ttl > 0
AckedCalls ==
  {j \in DOMAIN trace :
     /\ trace[j].ev = "instance_handle_subscribe"
     /\ \E q \in CallsBy("queue_send", j) :
          trace[q].entry.sd_type = "SubscribeAck" /\ trace[q].entry.ttl > 0}

\* the positions after j at which the subscription handled at j left the
\* store by its expiry, by a StopSubscribe or by stop(), which are the
\* removals not made for a reboot, or by a reboot that a later datagram made
\* known
EndedAfter(j) ==
  {r \in (j + 1)..Len(trace) :
     /\ trace[r].ev = "removed"
     /\ trace[r].store = trace[j].instance
     /\ trace[r].address = trace[j].addr
     /\ Identity(trace[r].entry) = Identity(from_subscribe_entry(trace[j].entry))
     /\ \/ ~ByReboot(r)
        \/ trace[trace[r].cause].dg > trace[j].dg}

\* C36: a subscription for which a SubscribeAck with ttl > 0 was queued is
\* stored once the callbacks of its datagram have run, also when that
\* datagram made a reboot of the peer known, and stays stored until it
\* expires, is stopped by a StopSubscribe, a later reboot or stop()
C36_AckedIsStored ==
  ready = <<>> =>
    \A j \in AckedCalls :
      \/ is_stored(stores[trace[j].instance], trace[j].addr, from_subscribe_entry(trace[j].entry))
      \/ EndedAfter(j) # {}

(***************************************************************************)
(* Auto: properties                                                        *)
(***************************************************************************)

\* the positions at which a Subscribe entry of eventgroup, with ttl > 0 or
\* ttl = 0, was sent to remote
AllSubscribesSent(eventgroup, remote) ==
  SubscribesSent(eventgroup, remote, timings.SUBSCRIBE_TTL)
  \cup SubscribesSent(eventgroup, remote, 0)

\* C37: whenever the loop has no callback pending and the Subscriber is
\* running, the Subscribe entry sent last for a registered pair (eventgroup,
\* remote) has ttl > 0: a stop-subscribe is not the last entry sent for a pair
\* that is still registered
C37_RegisteredIsSubscribed ==
  (ready = <<>> /\ subscriber.alive) =>
    \A i \in DOMAIN subscriber.subscribeentries :
      LET p == subscriber.subscribeentries[i]
          sent == AllSubscribesSent(p[1], p[2])
      IN sent # {} =>
           Nth(sent, Cardinality(sent)) \in SubscribesSent(p[1], p[2], timings.SUBSCRIBE_TTL)

(***************************************************************************)
(* Discover: filters whose listeners were taken back                       *)
(***************************************************************************)

\* the listeners registered for filter f when event k was logged
ListenersAt(f, k) ==
  {l \in {p[2] : p \in WatchPairs} :
     LET on == {j \in EventsOf("watch_service") :
                  j < k /\ trace[j].listener = l /\ trace[j].reg = [filter |-> f]}
         off == {j \in EventsOf("stop_watch_service") :
                   j < k /\ trace[j].listener = l /\ trace[j].reg = [filter |-> f]
                   /\ trace[j].removed}
     IN on # {} /\ \A o \in off : \E j \in on : j > o}

\* when event k was logged stop_watch_service had removed the last listener
\* of filter f
GivenUpAt(f, k) ==
  /\ ListenersAt(f, k) = {}
  /\ \E o \in EventsOf("stop_watch_service") :
       o < k /\ trace[o].reg = [filter |-> f] /\ trace[o].removed

\* C39: once stop_watch_service has removed the last listener of a filter,
\* and no listener watches all services, the find loop builds no FindService
\* entry for that filter, and an offer matching only such filters is not
\* taken as watched by handle_offer and so is not stored
C39_UnwatchedIsIgnored ==
  /\ \A k \in EventsOf("_build_entries") :
       \A i \in DOMAIN Unmatched(trace[k]) : ~GivenUpAt(Unmatched(trace[k])[i], k)
  /\ \A k \in EventsOf("handle_offer") :
       LET matching == {f \in {p[1] : p \in WatchPairs} :
                          /\ matches_offer(f, trace[k].entry)
                          /\ \E j \in EventsOf("watch_service") :
                               j < k /\ trace[j].reg = [filter |-> f]}
       IN (watcher_all_services = {} /\ matching # {}
             /\ \A f \in matching : GivenUpAt(f, k))
            => ~trace[k].watching

(***************************************************************************)
(* Discover: a filter registered after start                               *)
(***************************************************************************)

\* watch_service has just been called for filter f, after start(), and no
\* service in found_services matches f
LateWatch(f) ==
  /\ trace # <<>>
  /\ trace[Len(trace)].ev = "watch_service"
  /\ trace[Len(trace)].reg = [filter |-> f]
  /\ CallsOf("start", "discovery") # {}
  /\ ~service_found(World, f)

\* a FindService entry for filter f has been sent since f was registered
Sought(f) ==
  \E m \in SendsOf("FindService") :
    /\ \E i \in DOMAIN trace[m].entries :
         trace[m].entries[i] = create_find_entry(f, timings.FIND_TTL)
    /\ \E k \in EventsOf("watch_service") : k < m /\ trace[k].reg = [filter |-> f]

\* C40: when watch_service is called after start() for a filter that no
\* service in found_services matches, a FindService entry for that filter is
\* eventually sent, as long as the loop keeps running
C40_WatchedIsSought ==
  \A p \in WatchPairs : LateWatch(p[1]) ~> Sought(p[1])

=============================================================================
